---- MODULE Spec2Model ----
(***************************************************************************)
(* A model of the USFM parser of arenzana/usfmp (package usfm).            *)
(*                                                                         *)
(* Strings are sequences of one-character strings, so that trimming,       *)
(* splitting, number conversion and the regular expressions of NewParser   *)
(* are computed character by character, as the Go code computes them.      *)
(* A pointer that may be nil (to a Chapter, a Section or a Document, or an  *)
(* error) is a sequence of length 0 (nil) or 1 (the value pointed to).     *)
(***************************************************************************)
EXTENDS Integers, Sequences, FiniteSets, TLC

VARIABLES
    options,         \* p.options: StrictMode, IncludeFootnotes, IncludeReferences
    source,          \* the lines the reader can deliver
    input,           \* the physical lines scanner.Scan() has delivered so far
    lineNumber,      \* Parse's lineNumber
    doc,             \* Parse's doc (the Document under construction)
    currentChapter,  \* Parse's currentChapter (nil or a Chapter)
    currentSection,  \* Parse's currentSection (nil or a Section)
    pc,              \* "scan" while in the loop, "done" once Parse has returned
    ret,             \* what Parse returned: [doc, err], both nil before the return
    fnArg,           \* a call of a helper function: [fn, text, flag, parts, docs]
    fnOut,           \* nil, or what the call returned
    fnPc,            \* "idle" (no such call), "call", "return"
    calls            \* the Parse invocations running on one shared Parser: for
                     \* each, its own input read so far, line number, document,
                     \* cursors, position and return

vars == <<options, source, input, lineNumber, doc, currentChapter, currentSection,
          pc, ret, fnArg, fnOut, fnPc, calls>>

parseVars == <<options, source, input, lineNumber, doc, currentChapter, currentSection, pc, ret>>
fnVars == <<fnArg, fnOut, fnPc>>

(***************************************************************************)
(* Bounds of the model.                                                    *)
(***************************************************************************)
MaxLines == 3    \* lines a modelled input stream delivers at most
MaxLen == 5      \* length of the strings the helper functions are applied to

Nil == <<>>
Some(x) == <<x>>

(***************************************************************************)
(* Characters and the string functions of the Go library the parser uses.  *)
(***************************************************************************)
Digits == {"0", "1", "2", "3", "4", "5", "6", "7", "8", "9"}

LowerCase == {"a", "b", "c", "d", "e", "f", "g", "h", "i", "j", "k", "l", "m",
              "n", "o", "p", "q", "r", "s", "t", "u", "v", "w", "x", "y", "z"}

\* the class [a-z0-9] of markerRegex
TagChars == LowerCase \cup Digits

\* the class \s of the regexp package, which strings.TrimSpace also strips
WhiteSpace == {" ", "\t", "\n", "\r", "\f"}

DigitVal(c) ==
    CASE c = "0" -> 0 [] c = "1" -> 1 [] c = "2" -> 2 [] c = "3" -> 3 [] c = "4" -> 4
      [] c = "5" -> 5 [] c = "6" -> 6 [] c = "7" -> 7 [] c = "8" -> 8 [] c = "9" -> 9

\* length of the longest prefix of s whose characters all lie in the set cls
RECURSIVE PrefixFrom(_, _, _)
PrefixFrom(s, i, cls) ==
    IF i > Len(s) \/ s[i] \notin cls THEN i - 1 ELSE PrefixFrom(s, i + 1, cls)

PrefixLen(s, cls) == PrefixFrom(s, 1, cls)

\* length of the longest suffix of s whose characters all lie in the set cls
RECURSIVE SuffixFrom(_, _, _)
SuffixFrom(s, i, cls) ==
    IF i < 1 \/ s[i] \notin cls THEN Len(s) - i ELSE SuffixFrom(s, i - 1, cls)

SuffixLen(s, cls) == SuffixFrom(s, Len(s), cls)

DropPrefix(s, n) == SubSeq(s, n + 1, Len(s))

\* strings.TrimSpace
TrimSpace(s) ==
    LET a == PrefixLen(s, WhiteSpace)
    IN  IF a = Len(s) THEN <<>>
        ELSE SubSeq(s, a + 1, Len(s) - SuffixLen(s, WhiteSpace))

\* strings.HasPrefix
HasPrefix(s, p) == Len(s) >= Len(p) /\ SubSeq(s, 1, Len(p)) = p

\* strings.Index: the first position where sub occurs in s, 0 if none
Index(s, sub) ==
    LET hits == {i \in 1..(Len(s) - Len(sub) + 1) : SubSeq(s, i, i + Len(sub) - 1) = sub}
    IN  IF hits = {} THEN 0 ELSE CHOOSE i \in hits : \A j \in hits : i <= j

\* strings.SplitN(s, sep, 2)
SplitN2(s, sep) ==
    LET i == Index(s, sep)
    IN  IF i = 0 THEN <<s>>
        ELSE <<SubSeq(s, 1, i - 1), SubSeq(s, i + Len(sep), Len(s))>>

RECURSIVE DecimalValue(_)
DecimalValue(ds) ==
    IF ds = <<>> THEN 0
    ELSE 10 * DecimalValue(SubSeq(ds, 1, Len(ds) - 1)) + DigitVal(ds[Len(ds)])

\* strconv.Atoi: an optional sign and one or more decimal digits, nothing else
\* (the modelled strings are too short to leave the range of int)
Atoi(s) ==
    LET signed == s # <<>> /\ s[1] \in {"+", "-"}
        ds == IF signed THEN Tail(s) ELSE s
    IN  IF ds # <<>> /\ \A i \in 1..Len(ds) : ds[i] \in Digits
        THEN [ok |-> TRUE,
              num |-> IF signed /\ s[1] = "-" THEN 0 - DecimalValue(ds) ELSE DecimalValue(ds)]
        ELSE [ok |-> FALSE, num |-> 0]

(***************************************************************************)
(* The regular expressions compiled by NewParser, and the helpers of Parse.*)
(***************************************************************************)
BackSlash == "\\"

\* markerRegex, were white space required after the tag (\s+ for \s*)
markerRegex_NeedsSpace(line) ==
    IF line = <<>> \/ line[1] # BackSlash THEN <<>>
    ELSE LET rest     == Tail(line)
             n        == PrefixLen(rest, TagChars)
             afterTag == DropPrefix(rest, n)
             afterCl  == IF afterTag # <<>> /\ afterTag[1] = "*"
                         THEN Tail(afterTag) ELSE afterTag
             afterWs  == DropPrefix(afterCl, PrefixLen(afterCl, WhiteSpace))
         IN  IF n = 0 \/ PrefixLen(afterCl, WhiteSpace) = 0 THEN <<>>
             ELSE <<line, SubSeq(rest, 1, n), afterWs>>

\* markerRegex.FindStringSubmatch(line) for ^\\([a-z0-9]+)\*?\s*(.*) : every
\* part after the tag may match the empty string, so the greedy choices stand:
\* the tag is the longest run of [a-z0-9], then one "*" if there is one, then
\* all the white space, then the rest of the line up to a line feed.
\* The result is <<>> (no match) or <<whole, tag, content>>.
markerRegex(line) ==
    IF line = <<>> \/ line[1] # BackSlash THEN <<>>
    ELSE LET rest     == Tail(line)
             n        == PrefixLen(rest, TagChars)
             afterTag == DropPrefix(rest, n)
             afterCl  == IF afterTag # <<>> /\ afterTag[1] = "*"
                         THEN Tail(afterTag) ELSE afterTag
             afterWs  == DropPrefix(afterCl, PrefixLen(afterCl, WhiteSpace))
             lf       == Index(afterWs, <<"\n">>)
             content  == IF lf = 0 THEN afterWs ELSE SubSeq(afterWs, 1, lf - 1)
         IN  IF n = 0 THEN <<>>
             ELSE <<SubSeq(line, 1, Len(line) - Len(afterWs) + Len(content)),
                    SubSeq(rest, 1, n), content>>

\* parseMarker, were the content all that follows the tag, as it stands
parseMarker_RawContent(line, lineNo) ==
    IF ~HasPrefix(line, <<BackSlash>>)
    THEN [ok |-> FALSE, err |-> "NotAMarker", Tag |-> <<>>, Content |-> <<>>, Line |-> lineNo]
    ELSE LET matches == markerRegex(line)
         IN  IF Len(matches) < 3
             THEN [ok |-> FALSE, err |-> "InvalidMarkerFormat",
                   Tag |-> <<>>, Content |-> <<>>, Line |-> lineNo]
             ELSE [ok |-> TRUE, err |-> "",
                   Tag |-> matches[2],
                   Content |-> DropPrefix(line, 1 + Len(matches[2])), Line |-> lineNo]

\* parseMarker: the Marker of a trimmed line, or the error it fails with
parseMarker(line, lineNo) ==
    IF ~HasPrefix(line, <<BackSlash>>)
    THEN [ok |-> FALSE, err |-> "NotAMarker", Tag |-> <<>>, Content |-> <<>>, Line |-> lineNo]
    ELSE LET matches == markerRegex(line)
         IN  IF Len(matches) < 3
             THEN [ok |-> FALSE, err |-> "InvalidMarkerFormat",
                   Tag |-> <<>>, Content |-> <<>>, Line |-> lineNo]
             ELSE [ok |-> TRUE, err |-> "",
                   Tag |-> matches[2], Content |-> TrimSpace(matches[3]), Line |-> lineNo]

\* parseChapter, were it to take 0 for a number it cannot read
parseChapter_Swallow(content) ==
    LET a == Atoi(TrimSpace(content))
    IN  [ok |-> TRUE, err |-> "", num |-> a.num]

\* parseChapter
parseChapter(content) ==
    LET a == Atoi(TrimSpace(content))
    IN  IF a.ok THEN [ok |-> TRUE, err |-> "", num |-> a.num]
        ELSE [ok |-> FALSE, err |-> "InvalidChapterNumber", num |-> 0]

getSectionLevel_AlwaysOne(tag) == 1

\* getSectionLevel
getSectionLevel(tag) ==
    CASE tag = <<"s", "1">> -> 1
      [] tag = <<"s", "2">> -> 2
      [] tag = <<"s", "3">> -> 3
      [] OTHER -> 1

\* One attempt of footnoteRegex at position i of s, for
\*   \\f\s*([^\\]*?)\\fr\s*([^\\]*?)\\ft\s*([^\\]*?)\\f\*
\* A captured group cannot hold a backslash and the literal after it starts
\* with one, so each of the three segments runs exactly to the next backslash;
\* the greedy \s* takes the white space the segment starts with and the group
\* captures the rest.  Segment(pos) is that segment, starting at pos.
Segment(s, pos) ==
    LET r == DropPrefix(s, pos - 1)
        k == Index(r, <<BackSlash>>)
    IN  IF k = 0 THEN [ok |-> FALSE, cap |-> <<>>, next |-> pos]
        ELSE LET run == SubSeq(r, 1, k - 1)
             IN  [ok |-> TRUE, cap |-> DropPrefix(run, PrefixLen(run, WhiteSpace)),
                  next |-> pos + k - 1]

LitAt(s, pos, lit) == pos >= 1 /\ HasPrefix(DropPrefix(s, pos - 1), lit)

\* the same, were a block that the text ends in taken without its \f*
footnoteRegexAt_NoCloser(s, i) ==
    LET fail == [ok |-> FALSE, start |-> i, end |-> i, caps |-> <<>>]
    IN  IF ~LitAt(s, i, <<BackSlash, "f">>) THEN fail
        ELSE LET s1 == Segment(s, i + 2)
             IN  IF ~(s1.ok /\ LitAt(s, s1.next, <<BackSlash, "f", "r">>)) THEN fail
                 ELSE LET s2 == Segment(s, s1.next + 3)
                      IN  IF ~(s2.ok /\ LitAt(s, s2.next, <<BackSlash, "f", "t">>)) THEN fail
                          ELSE LET s3 == Segment(s, s2.next + 3)
                               IN  IF s3.ok /\ LitAt(s, s3.next, <<BackSlash, "f", "*">>)
                                   THEN [ok |-> TRUE, start |-> i, end |-> s3.next + 3,
                                         caps |-> <<s1.cap, s2.cap, s3.cap>>]
                                   ELSE IF s3.ok THEN fail
                                   ELSE [ok |-> TRUE, start |-> i, end |-> Len(s) + 1,
                                         caps |-> <<s1.cap, s2.cap,
                                                    DropPrefix(s, s2.next + 2)>>]

footnoteRegexAt(s, i) ==
    LET fail == [ok |-> FALSE, start |-> i, end |-> i, caps |-> <<>>]
    IN  IF ~LitAt(s, i, <<BackSlash, "f">>) THEN fail
        ELSE LET s1 == Segment(s, i + 2)
             IN  IF ~(s1.ok /\ LitAt(s, s1.next, <<BackSlash, "f", "r">>)) THEN fail
                 ELSE LET s2 == Segment(s, s1.next + 3)
                      IN  IF ~(s2.ok /\ LitAt(s, s2.next, <<BackSlash, "f", "t">>)) THEN fail
                          ELSE LET s3 == Segment(s, s2.next + 3)
                               IN  IF ~(s3.ok /\ LitAt(s, s3.next, <<BackSlash, "f", "*">>))
                                   THEN fail
                                   ELSE [ok |-> TRUE, start |-> i, end |-> s3.next + 3,
                                         caps |-> <<s1.cap, s2.cap, s3.cap>>]

\* footnoteRegex.FindAllStringSubmatch(s, -1): the leftmost matches, none
\* overlapping, searched from position pos on
RECURSIVE footnoteRegexFindAll(_, _)
footnoteRegexFindAll(s, pos) ==
    IF pos > Len(s) THEN <<>>
    ELSE LET m == footnoteRegexAt(s, pos)
         IN  IF m.ok THEN <<m>> \o footnoteRegexFindAll(s, m.end)
             ELSE footnoteRegexFindAll(s, pos + 1)

\* the loop of extractFootnotes over the matches
RECURSIVE FootnotesOf(_)
FootnotesOf(matches) ==
    IF matches = <<>> THEN <<>>
    ELSE <<[Caller    |-> TrimSpace(matches[1].caps[1]),
            Reference |-> TrimSpace(matches[1].caps[2]),
            Text      |-> TrimSpace(matches[1].caps[3])]>> \o FootnotesOf(Tail(matches))

\* extractFootnotes
extractFootnotes(text) == FootnotesOf(footnoteRegexFindAll(text, 1))

\* footnoteRegex.ReplaceAllString(s, ""): s without its matches, from pos on
RECURSIVE footnoteRegexRemoveAll(_, _)
footnoteRegexRemoveAll(s, pos) ==
    IF pos > Len(s) THEN <<>>
    ELSE LET m == footnoteRegexAt(s, pos)
         IN  IF m.ok THEN footnoteRegexRemoveAll(s, m.end)
             ELSE <<s[pos]>> \o footnoteRegexRemoveAll(s, pos + 1)

\* strings.ReplaceAll(s, "  ", " "): one pass, left to right, no overlap
RECURSIVE ReplaceDoubleSpace(_)
ReplaceDoubleSpace(s) ==
    IF Len(s) < 2 THEN s
    ELSE IF s[1] = " " /\ s[2] = " " THEN <<" ">> \o ReplaceDoubleSpace(DropPrefix(s, 2))
    ELSE <<s[1]>> \o ReplaceDoubleSpace(Tail(s))

\* the loop of removeFootnoteMarkers: for strings.Contains(cleaned, "  ")
RECURSIVE CollapseSpaces(_)
CollapseSpaces(s) ==
    IF Index(s, <<" ", " ">>) # 0 THEN CollapseSpaces(ReplaceDoubleSpace(s)) ELSE s

removeFootnoteMarkers_NoCollapse(text) ==
    TrimSpace(footnoteRegexRemoveAll(text, 1))

\* removeFootnoteMarkers
removeFootnoteMarkers(text) ==
    TrimSpace(CollapseSpaces(footnoteRegexRemoveAll(text, 1)))

parseVerse_AlwaysClean(content, includeFootnotes) ==
    LET parts     == SplitN2(content, <<" ">>)
        a         == Atoi(parts[1])
        verseText == IF Len(parts) > 1 THEN parts[2] ELSE <<>>
    IN  IF ~a.ok
        THEN [ok |-> FALSE, err |-> "InvalidVerseNumber", verse |-> Nil]
        ELSE [ok |-> TRUE, err |-> "",
              verse |-> Some([Number    |-> a.num,
                              Text      |-> removeFootnoteMarkers(verseText),
                              Footnotes |-> extractFootnotes(verseText)])]

\* parseVerse
parseVerse(content, includeFootnotes) ==
    LET parts     == SplitN2(content, <<" ">>)
        a         == Atoi(parts[1])
        verseText == IF Len(parts) > 1 THEN parts[2] ELSE <<>>
    IN  IF ~a.ok
        THEN [ok |-> FALSE, err |-> "InvalidVerseNumber", verse |-> Nil]
        ELSE [ok |-> TRUE, err |-> "",
              verse |-> Some([Number    |-> a.num,
                              Text      |-> IF includeFootnotes
                                            THEN removeFootnoteMarkers(verseText)
                                            ELSE verseText,
                              Footnotes |-> IF includeFootnotes
                                            THEN extractFootnotes(verseText)
                                            ELSE <<>>])]

(***************************************************************************)
(* Parse.  ParseState is the part of Parse's frame the loop body changes:  *)
(* [doc, currentChapter, currentSection, err]; err is nil or the error the *)
(* body returned, [kind, line] with line nil when the message names none.  *)
(***************************************************************************)
\* The two slices of a Document, TableOfContents and Chapters, are records
\* [isNil, elems]: a nil slice (the zero value), make(.., 0), and append.
\* The slices below a chapter (Sections, Verses, Footnotes) are all made with
\* make(.., 0) and are the sequences of their elements.
NilSlice == [isNil |-> TRUE, elems |-> <<>>]
MakeSlice == [isNil |-> FALSE, elems |-> <<>>]
GoAppend(sl, x) == [isNil |-> FALSE, elems |-> Append(sl.elems, x)]

SourceFile == <<"t", ".", "s", "f", "m">>

\* doc := &Document{ParsedAt: .., SourceFile: sourceFile, Chapters: make(.., 0)}
\* the document, were Chapters left to its zero value
NewDocument_NilChapters(sourceFile) ==
    [ID |-> <<>>, Header |-> <<>>, TableOfContents |-> NilSlice, MainTitle |-> <<>>,
     Chapters |-> NilSlice, SourceFile |-> sourceFile]

NewDocument(sourceFile) ==
    [ID |-> <<>>, Header |-> <<>>, TableOfContents |-> NilSlice, MainTitle |-> <<>>,
     Chapters |-> MakeSlice, SourceFile |-> sourceFile]

LineError(kind, lineNo) == Some([kind |-> kind, line |-> Some(lineNo)])

Fail(st, kind, lineNo) == [st EXCEPT !.err = LineError(kind, lineNo)]

\* case "id", "h", "mt1"
\* case "id", were the first \id to stay
HandleId_KeepFirst(st, marker) ==
    IF st.doc.ID = <<>> THEN [st EXCEPT !.doc.ID = marker.Content] ELSE st

HandleId(st, marker) == [st EXCEPT !.doc.ID = marker.Content]
HandleH(st, marker) == [st EXCEPT !.doc.Header = marker.Content]
HandleMt1(st, marker) == [st EXCEPT !.doc.MainTitle = marker.Content]

\* case "toc1", "toc2", "toc3"
HandleToc_Overwrite(st, marker, level) ==
    [st EXCEPT !.doc.TableOfContents =
        [isNil |-> FALSE,
         elems |-> SelectSeq(@.elems, LAMBDA e : e.Level # level)
                   \o <<[Level |-> level, Text |-> marker.Content]>>]]

HandleToc(st, marker, level) ==
    [st EXCEPT !.doc.TableOfContents = GoAppend(@, [Level |-> level, Text |-> marker.Content])]

\* case "c", were it to start the new chapter without saving the previous one
HandleC_LoseChapter(st, marker, lineNo) ==
    LET c == parseChapter(marker.Content)
    IN  IF ~c.ok THEN Fail(st, c.err, lineNo)
        ELSE [doc |-> st.doc,
              currentChapter |-> Some([Number |-> c.num, Sections |-> <<>>]),
              currentSection |-> Nil,
              err |-> Nil]

\* case "c", were the section cursor left as it is
HandleC_KeepSection(st, marker, lineNo) ==
    LET c == parseChapter(marker.Content)
        saved == IF st.currentSection # Nil /\ st.currentChapter # Nil
                 THEN Some([st.currentChapter[1] EXCEPT
                               !.Sections = Append(@, st.currentSection[1])])
                 ELSE st.currentChapter
    IN  IF ~c.ok THEN Fail(st, c.err, lineNo)
        ELSE [doc |-> IF saved # Nil
                      THEN [st.doc EXCEPT !.Chapters = GoAppend(@, saved[1])]
                      ELSE st.doc,
              currentChapter |-> Some([Number |-> c.num, Sections |-> <<>>]),
              currentSection |-> st.currentSection,
              err |-> Nil]

\* case "c"
HandleC(st, marker, lineNo) ==
    LET c == parseChapter(marker.Content)
        saved == IF st.currentSection # Nil /\ st.currentChapter # Nil
                 THEN Some([st.currentChapter[1] EXCEPT
                               !.Sections = Append(@, st.currentSection[1])])
                 ELSE st.currentChapter
    IN  IF ~c.ok THEN Fail(st, c.err, lineNo)
        ELSE [doc |-> IF saved # Nil
                      THEN [st.doc EXCEPT !.Chapters = GoAppend(@, saved[1])]
                      ELSE st.doc,
              currentChapter |-> Some([Number |-> c.num, Sections |-> <<>>]),
              currentSection |-> Nil,
              err |-> Nil]

\* case "s1", "s2", "s3"
HandleS(st, marker) ==
    LET section == [Level |-> getSectionLevel(marker.Tag), Title |-> marker.Content,
                    Reference |-> <<>>, Verses |-> <<>>]
    IN  [st EXCEPT
            !.currentChapter =
                IF st.currentSection # Nil /\ st.currentChapter # Nil
                THEN Some([st.currentChapter[1] EXCEPT
                              !.Sections = Append(@, st.currentSection[1])])
                ELSE @,
            !.currentSection = Some(section)]

HandleR_NoOptionCheck(st, marker, opts) ==
    IF st.currentSection # Nil
    THEN [st EXCEPT !.currentSection = Some([@[1] EXCEPT !.Reference = marker.Content])]
    ELSE st

\* case "r", were references taken in strict mode only
HandleR_StrictOnly(st, marker, opts) ==
    IF opts.StrictMode /\ opts.IncludeReferences /\ st.currentSection # Nil
    THEN [st EXCEPT !.currentSection = Some([@[1] EXCEPT !.Reference = marker.Content])]
    ELSE st

\* case "r"
HandleR(st, marker, opts) ==
    IF opts.IncludeReferences /\ st.currentSection # Nil
    THEN [st EXCEPT !.currentSection = Some([@[1] EXCEPT !.Reference = marker.Content])]
    ELSE st

\* case "v", were it to drop a verse that finds no open section
HandleV_NoImplicit(st, marker, opts, lineNo) ==
    LET v == parseVerse(marker.Content, opts.IncludeFootnotes)
    IN  IF ~v.ok THEN Fail(st, v.err, lineNo)
        ELSE IF st.currentSection = Nil THEN st
        ELSE [st EXCEPT !.currentSection =
                            Some([@[1] EXCEPT !.Verses = Append(@, v.verse[1])])]

\* case "v", were the implicit section opened without the verse
HandleV_EmptyImplicit(st, marker, opts, lineNo) ==
    LET v == parseVerse(marker.Content, opts.IncludeFootnotes)
    IN  IF ~v.ok THEN Fail(st, v.err, lineNo)
        ELSE IF st.currentSection = Nil
        THEN [st EXCEPT !.currentSection =
                 Some([Level |-> 1, Title |-> <<>>, Reference |-> <<>>, Verses |-> <<>>])]
        ELSE [st EXCEPT !.currentSection =
                            Some([@[1] EXCEPT !.Verses = Append(@, v.verse[1])])]

\* case "v"
HandleV(st, marker, opts, lineNo) ==
    LET v == parseVerse(marker.Content, opts.IncludeFootnotes)
        section == IF st.currentSection = Nil
                   THEN [Level |-> 1, Title |-> <<>>, Reference |-> <<>>, Verses |-> <<>>]
                   ELSE st.currentSection[1]
    IN  IF ~v.ok THEN Fail(st, v.err, lineNo)
        ELSE [st EXCEPT !.currentSection =
                            Some([section EXCEPT !.Verses = Append(@, v.verse[1])])]

\* default, were it to ignore an unknown marker in strict mode too
HandleUnknown_Ignore(st, marker, opts, lineNo) == st

\* default
HandleUnknown(st, marker, opts, lineNo) ==
    IF opts.StrictMode THEN Fail(st, "UnknownMarker", lineNo) ELSE st

HandleInvalid_Ignore(st, marker, opts, lineNo) == st

\* a marker that failed to parse
HandleInvalid(st, marker, opts, lineNo) ==
    IF opts.StrictMode THEN Fail(st, marker.err, lineNo) ELSE st

MetaTags == {<<"i", "d">>, <<"h">>, <<"m", "t", "1">>}
TocTags == {<<"t", "o", "c", "1">>, <<"t", "o", "c", "2">>, <<"t", "o", "c", "3">>}
SectionTags == {<<"s", "1">>, <<"s", "2">>, <<"s", "3">>}
KnownTags == MetaTags \cup TocTags \cup SectionTags \cup {<<"c">>, <<"r">>, <<"v">>}

TocLevel(tag) == DigitVal(tag[4])

\* switch marker.Tag
Dispatch(st, marker, opts, lineNo) ==
    CASE marker.Tag = <<"i", "d">>      -> HandleId(st, marker)
      [] marker.Tag = <<"h">>           -> HandleH(st, marker)
      [] marker.Tag \in TocTags         -> HandleToc(st, marker, TocLevel(marker.Tag))
      [] marker.Tag = <<"m", "t", "1">> -> HandleMt1(st, marker)
      [] marker.Tag = <<"c">>           -> HandleC(st, marker, lineNo)
      [] marker.Tag \in SectionTags     -> HandleS(st, marker)
      [] marker.Tag = <<"r">>           -> HandleR(st, marker, opts)
      [] marker.Tag = <<"v">>           -> HandleV(st, marker, opts, lineNo)
      [] OTHER                          -> HandleUnknown(st, marker, opts, lineNo)

\* the body of the loop, for the physical line `text`, the lineNo-th one
LoopBody(st, text, opts, lineNo) ==
    LET line == TrimSpace(text)
        marker == parseMarker(line, lineNo)
    IN  IF line = <<>> THEN st
        ELSE IF ~marker.ok THEN HandleInvalid(st, marker, opts, lineNo)
        ELSE Dispatch(st, marker, opts, lineNo)

\* "Add final section and chapter", after the loop
FinalFlush(st) ==
    LET saved == IF st.currentSection # Nil /\ st.currentChapter # Nil
                 THEN Some([st.currentChapter[1] EXCEPT
                               !.Sections = Append(@, st.currentSection[1])])
                 ELSE st.currentChapter
    IN  IF saved # Nil
        THEN [st EXCEPT !.currentChapter = saved, !.doc.Chapters = GoAppend(@, saved[1])]
        ELSE st

\* the return, were a read failure to hand out the document read so far
Return_Partial(st, scanErr) ==
    [doc |-> Some(FinalFlush(st).doc),
     err |-> IF scanErr THEN Some([kind |-> "InputReadFailure", line |-> Nil]) ELSE Nil]

\* what Parse returns once the loop has ended, scanErr telling whether
\* scanner.Err() is non-nil
Return(st, scanErr) ==
    IF scanErr
    THEN [doc |-> Nil, err |-> Some([kind |-> "InputReadFailure", line |-> Nil])]
    ELSE [doc |-> Some(FinalFlush(st).doc), err |-> Nil]

\* Parse on an input that is read without failure, as a function of its lines:
\* the loop from the frame st on, the first line being the lineNo-th
RECURSIVE ParseFrom(_, _, _, _)
ParseFrom(st, lines, opts, lineNo) ==
    IF lines = <<>> THEN Return(st, FALSE)
    ELSE LET after == LoopBody(st, lines[1], opts, lineNo)
         IN  IF after.err # Nil THEN [doc |-> Nil, err |-> after.err]
             ELSE ParseFrom(after, Tail(lines), opts, lineNo + 1)

Parse(lines, opts) ==
    ParseFrom([doc |-> NewDocument(SourceFile), currentChapter |-> Nil,
               currentSection |-> Nil, err |-> Nil], lines, opts, 1)

(***************************************************************************)
(* The input: the lines a source can deliver.                              *)
(***************************************************************************)
\*    (a line of white space)
LineBlank == <<" ">>
\* an empty line, and a line of a tab and a space
LineEmpty == <<>>
LineTab == <<"\t", " ">>
\* x  (text that is no marker)
LineText == <<"x">>
\* \  (a backslash and no tag)
LineBackSlash == <<BackSlash>>
\* \id X
LineId == <<BackSlash, "i", "d", " ", "X">>
\* \id Y  (a second \id)
LineId2 == <<BackSlash, "i", "d", " ", "Y">>
\* \h H
LineH == <<BackSlash, "h", " ", "H">>
\* \mt1 M
LineMt1 == <<BackSlash, "m", "t", "1", " ", "M">>
\* \toc1 T
LineToc1 == <<BackSlash, "t", "o", "c", "1", " ", "T">>
\* \toc1 V  (a second \toc1)
LineToc1b == <<BackSlash, "t", "o", "c", "1", " ", "V">>
\* \toc3 W
LineToc3 == <<BackSlash, "t", "o", "c", "3", " ", "W">>
\* \toc2 U
LineToc2 == <<BackSlash, "t", "o", "c", "2", " ", "U">>
\* \c 1
LineC1 == <<BackSlash, "c", " ", "1">>
\* \c 2
LineC2 == <<BackSlash, "c", " ", "2">>
\* \c x  (a chapter marker without a number)
LineCx == <<BackSlash, "c", " ", "x">>
\* \s1 A
LineS1 == <<BackSlash, "s", "1", " ", "A">>
\* \s2 B
LineS2 == <<BackSlash, "s", "2", " ", "B">>
\* \s3 C
LineS3 == <<BackSlash, "s", "3", " ", "C">>
\* \r R
LineR == <<BackSlash, "r", " ", "R">>
\* \r Q  (a second reference)
LineR2 == <<BackSlash, "r", " ", "Q">>
\* \v 1 Hello.
LineV1 == <<BackSlash, "v", " ", "1", " ", "H", "e", "l", "l", "o", ".">>
\* \v 2  (a verse marker without a body)
LineV2 == <<BackSlash, "v", " ", "2">>
\* \v x y  (a verse marker without a number)
LineVx == <<BackSlash, "v", " ", "x", " ", "y">>
\* \v 3 A \f + \fr 1:1 \ft N\f* B  (a verse with a footnote)
LineVF == <<BackSlash, "v", " ", "3", " ", "A", " ", BackSlash, "f", " ", "+", " ", BackSlash, "f", "r", " ", "1", ":", "1", " ", BackSlash, "f", "t", " ", "N", BackSlash, "f", "*", " ", "B">>
\* \v 1 A \f + \fr 1 \ft N  (a footnote that is never closed)
LineVOpen == <<BackSlash, "v", " ", "1", " ", "A", " ", BackSlash, "f", " ", "+", " ", BackSlash, "f", "r", " ", "1", " ", BackSlash, "f", "t", " ", "N">>
\* \v 2 \f + \ft N\f* B  (a footnote without \fr)
LineVNoFr == <<BackSlash, "v", " ", "2", " ", BackSlash, "f", " ", "+", " ", BackSlash, "f", "t", " ", "N", BackSlash, "f", "*", " ", "B">>
\* \v 4 A \f + \fr 1\f*  (a footnote without \ft)
LineVNoFt == <<BackSlash, "v", " ", "4", " ", "A", " ", BackSlash, "f", " ", "+", " ", BackSlash, "f", "r", " ", "1", BackSlash, "f", "*">>
\* \v 5 A \f\f + \fr 1 \ft N\f*\fr 2 \ft M\f*  (a footnote block between an
\* opening \f and the rest of a block)
LineVSplit == <<BackSlash, "v", " ", "5", " ", "A", " ", BackSlash, "f", BackSlash, "f", " ", "+", " ", BackSlash, "f", "r", " ", "1", " ", BackSlash, "f", "t", " ", "N", BackSlash, "f", "*", BackSlash, "f", "r", " ", "2", " ", BackSlash, "f", "t", " ", "M", BackSlash, "f", "*">>
\* \q x  (a marker Parse does not know)
LineQ == <<BackSlash, "q", " ", "x">>

\* the lines of a text with chapters, sections and verses
StructureLines == {LineBlank, LineId, LineC1, LineC2, LineS1, LineS2, LineR,
                   LineV1, LineV2, LineVF}

\* the lines of a text with damaged and unknown lines
DamagedLines == {LineBlank, LineText, LineBackSlash, LineC1, LineCx, LineS1,
                 LineV1, LineVx, LineQ}

\* the lines of the front matter of a book
HeaderLines == {LineId, LineH, LineMt1, LineToc1, LineToc2, LineC1, LineV1}

\* the lines of sections with their references
ReferenceLines == {LineC1, LineS1, LineR, LineR2, LineV1}

\* the lines of a text with blank lines of every sort
SpacedLines == {LineEmpty, LineBlank, LineTab, LineC1, LineVx}

\* the lines of a front matter with repeated markers
RepeatedLines == {LineId, LineId2, LineH, LineMt1, LineToc1, LineToc1b, LineToc3, LineS1}

\* the lines of a chapter with headings of every level
SectionLines == {LineC1, LineS1, LineS2, LineS3, LineV1, LineV2}

\* verses with footnote markup that is not a whole block
PartialFootnoteLines == {LineVOpen, LineVNoFr, LineVNoFt}

\* the lines of a chapter with such verses
MarkupLines == PartialFootnoteLines \cup {LineC1, LineVF, LineVSplit}

Sources == {StructureLines, DamagedLines, HeaderLines, ReferenceLines, SpacedLines,
            RepeatedLines, SectionLines, MarkupLines}

AllOptions == [StrictMode : BOOLEAN, IncludeFootnotes : BOOLEAN, IncludeReferences : BOOLEAN]

(***************************************************************************)
(* The state machine of one Parse call.  Each action is one turn of the    *)
(* loop `for scanner.Scan()`, for one kind of line, or the end of the loop.*)
(***************************************************************************)
Init ==
    /\ options \in AllOptions
    /\ source \in Sources
    /\ input = <<>>
    /\ lineNumber = 0
    /\ doc = NewDocument(SourceFile)
    /\ currentChapter = Nil
    /\ currentSection = Nil
    /\ pc = "scan"
    /\ ret = [doc |-> Nil, err |-> Nil]
    /\ fnArg = <<>>
    /\ fnOut = Nil
    /\ fnPc = "idle"
    /\ calls = <<>>

\* Parse's frame before a turn of the loop
Frame == [doc |-> doc, currentChapter |-> currentChapter,
          currentSection |-> currentSection, err |-> Nil]

\* scanner.Scan() can deliver `text` as the next line
CanScan(text) == pc = "scan" /\ Len(input) < MaxLines /\ text \in source

MarkerOf(text) == parseMarker(TrimSpace(text), lineNumber + 1)

\* the line is not blank and parseMarker returns no error
IsMarker(text) == MarkerOf(text).ok

\* the turn, were lineNumber incremented after the blank lines are skipped
Turn_BlankNotCounted(text, st) ==
    /\ input' = Append(input, text)
    /\ lineNumber' = IF TrimSpace(text) = <<>> THEN lineNumber ELSE lineNumber + 1
    /\ IF st.err # Nil
       THEN /\ pc' = "done"
            /\ ret' = [doc |-> Nil, err |-> st.err]
            /\ UNCHANGED <<doc, currentChapter, currentSection>>
       ELSE /\ doc' = st.doc
            /\ currentChapter' = st.currentChapter
            /\ currentSection' = st.currentSection
            /\ UNCHANGED <<pc, ret>>
    /\ UNCHANGED <<options, source, fnVars, calls>>

\* the turn of the loop for `text` ends with the frame st: Parse returns
\* st.err if the turn failed and goes on scanning otherwise
Turn(text, st) ==
    /\ input' = Append(input, text)
    /\ lineNumber' = lineNumber + 1
    /\ IF st.err # Nil
       THEN /\ pc' = "done"
            /\ ret' = [doc |-> Nil, err |-> st.err]
            /\ UNCHANGED <<doc, currentChapter, currentSection>>
       ELSE /\ doc' = st.doc
            /\ currentChapter' = st.currentChapter
            /\ currentSection' = st.currentSection
            /\ UNCHANGED <<pc, ret>>
    /\ UNCHANGED <<options, source, fnVars, calls>>

ScanBlank ==
    \E text \in source :
        /\ CanScan(text)
        /\ TrimSpace(text) = <<>>
        /\ Turn(text, Frame)

ScanInvalid ==
    \E text \in source :
        /\ CanScan(text)
        /\ TrimSpace(text) # <<>> /\ ~MarkerOf(text).ok
        /\ Turn(text, HandleInvalid(Frame, MarkerOf(text), options, lineNumber + 1))

MarkerId ==
    \E text \in source :
        /\ CanScan(text)
        /\ IsMarker(text) /\ MarkerOf(text).Tag = <<"i", "d">>
        /\ Turn(text, HandleId(Frame, MarkerOf(text)))

MarkerH ==
    \E text \in source :
        /\ CanScan(text)
        /\ IsMarker(text) /\ MarkerOf(text).Tag = <<"h">>
        /\ Turn(text, HandleH(Frame, MarkerOf(text)))

MarkerToc ==
    \E text \in source :
        /\ CanScan(text)
        /\ IsMarker(text) /\ MarkerOf(text).Tag \in TocTags
        /\ Turn(text, HandleToc(Frame, MarkerOf(text), TocLevel(MarkerOf(text).Tag)))

MarkerMt1 ==
    \E text \in source :
        /\ CanScan(text)
        /\ IsMarker(text) /\ MarkerOf(text).Tag = <<"m", "t", "1">>
        /\ Turn(text, HandleMt1(Frame, MarkerOf(text)))

MarkerC ==
    \E text \in source :
        /\ CanScan(text)
        /\ IsMarker(text) /\ MarkerOf(text).Tag = <<"c">>
        /\ Turn(text, HandleC(Frame, MarkerOf(text), lineNumber + 1))

MarkerS ==
    \E text \in source :
        /\ CanScan(text)
        /\ IsMarker(text) /\ MarkerOf(text).Tag \in SectionTags
        /\ Turn(text, HandleS(Frame, MarkerOf(text)))

MarkerR ==
    \E text \in source :
        /\ CanScan(text)
        /\ IsMarker(text) /\ MarkerOf(text).Tag = <<"r">>
        /\ Turn(text, HandleR(Frame, MarkerOf(text), options))

MarkerV ==
    \E text \in source :
        /\ CanScan(text)
        /\ IsMarker(text) /\ MarkerOf(text).Tag = <<"v">>
        /\ Turn(text, HandleV(Frame, MarkerOf(text), options, lineNumber + 1))

MarkerUnknown ==
    \E text \in source :
        /\ CanScan(text)
        /\ IsMarker(text) /\ MarkerOf(text).Tag \notin KnownTags
        /\ Turn(text, HandleUnknown(Frame, MarkerOf(text), options, lineNumber + 1))

\* scanner.Scan() returns false: the loop ends, the open section and chapter
\* are added, and Parse returns
LoopEnd(scanErr) ==
    /\ pc = "scan"
    /\ doc' = FinalFlush(Frame).doc
    /\ currentChapter' = FinalFlush(Frame).currentChapter
    /\ ret' = Return(Frame, scanErr)
    /\ pc' = "done"
    /\ UNCHANGED <<options, source, input, lineNumber, currentSection, fnVars, calls>>

\* the input ends
EndOfInput ==
    /\ pc = "scan"
    /\ LoopEnd(FALSE)

\* the reader fails (or a line is too long for the scanner)
ReadFailure ==
    /\ pc = "scan"
    /\ LoopEnd(TRUE)

Next ==
    \/ ScanBlank
    \/ ScanInvalid
    \/ MarkerId
    \/ MarkerH
    \/ MarkerToc
    \/ MarkerMt1
    \/ MarkerC
    \/ MarkerS
    \/ MarkerR
    \/ MarkerV
    \/ MarkerUnknown
    \/ EndOfInput
    \/ ReadFailure

Spec == Init /\ [][Next]_vars

(***************************************************************************)
(* The formatter package.  A text is the tuple of its characters; the JSON *)
(* encoder is first written line by line (json.MarshalIndent with the      *)
(* prefix "" and the indent of two spaces) and the lines are then joined   *)
(* with line feeds.                                                        *)
(***************************************************************************)
Quote == "\""

\* the json struct tags of types.go
Key_id == <<"i", "d">>
Key_header == <<"h", "e", "a", "d", "e", "r">>
Key_toc == <<"t", "o", "c">>
Key_main_title == <<"m", "a", "i", "n", "_", "t", "i", "t", "l", "e">>
Key_chapters == <<"c", "h", "a", "p", "t", "e", "r", "s">>
Key_parsed_at == <<"p", "a", "r", "s", "e", "d", "_", "a", "t">>
Key_source_file == <<"s", "o", "u", "r", "c", "e", "_", "f", "i", "l", "e">>
Key_level == <<"l", "e", "v", "e", "l">>
Key_text == <<"t", "e", "x", "t">>
Key_number == <<"n", "u", "m", "b", "e", "r">>
Key_sections == <<"s", "e", "c", "t", "i", "o", "n", "s">>
Key_title == <<"t", "i", "t", "l", "e">>
Key_reference == <<"r", "e", "f", "e", "r", "e", "n", "c", "e">>
Key_verses == <<"v", "e", "r", "s", "e", "s">>
Key_footnotes == <<"f", "o", "o", "t", "n", "o", "t", "e", "s">>
Key_caller == <<"c", "a", "l", "l", "e", "r">>

\* Document.ParsedAt is time.Now() at the parse; the model has one instant
ParsedAt == <<"2", "0", "2", "6", "-", "0", "1", "-", "0", "1", "T", "0", "0", ":", "0", "0", ":", "0", "0", "Z">>

\* encoding/json on one character of a string (HTML escaping is on)
jsonEscape(c) ==
    CASE c = Quote -> <<BackSlash, Quote>>
      [] c = BackSlash -> <<BackSlash, BackSlash>>
      [] c = "\n" -> <<BackSlash, "n">>
      [] c = "\r" -> <<BackSlash, "r">>
      [] c = "\t" -> <<BackSlash, "t">>
      [] c = "<" -> <<BackSlash, "u", "0", "0", "3", "c">>
      [] c = ">" -> <<BackSlash, "u", "0", "0", "3", "e">>
      [] c = "&" -> <<BackSlash, "u", "0", "0", "2", "6">>
      [] OTHER -> <<c>>

RECURSIVE jsonEscapeAll(_)
jsonEscapeAll(s) ==
    IF s = <<>> THEN <<>> ELSE jsonEscape(s[1]) \o jsonEscapeAll(Tail(s))

\* a Go string as a JSON string
jsonString(s) == <<Quote>> \o jsonEscapeAll(s) \o <<Quote>>

DigitChars == <<"0", "1", "2", "3", "4", "5", "6", "7", "8", "9">>

\* a Go int as a JSON number (also fmt's %d)
RECURSIVE Itoa(_)
Itoa(n) ==
    IF n < 0 THEN <<"-">> \o Itoa(0 - n)
    ELSE IF n < 10 THEN <<DigitChars[n + 1]>>
    ELSE Itoa(n \div 10) \o <<DigitChars[(n % 10) + 1]>>

\* the lines of a value, one level deeper
RECURSIVE IndentLines(_)
IndentLines(ls) ==
    IF ls = <<>> THEN <<>>
    ELSE IF Len(ls) = 1 THEN <<<<" ", " ">> \o ls[1]>>
    ELSE IndentLines(SubSeq(ls, 1, Len(ls) \div 2))
         \o IndentLines(SubSeq(ls, Len(ls) \div 2 + 1, Len(ls)))

\* a comma after a value that is not the last one of its object or array
WithComma(ls) == [ls EXCEPT ![Len(ls)] = @ \o <<",">>]

\* the members of an object or array, each a sequence of lines
RECURSIVE jsonItems(_)
jsonItems(items) ==
    IF Len(items) = 1 THEN IndentLines(items[1])
    ELSE IndentLines(WithComma(items[1])) \o jsonItems(Tail(items))

\* "key": value
jsonField(key, ls) == <<jsonString(key) \o <<":", " ">> \o ls[1]>> \o Tail(ls)

\* a struct (every struct here has a field that is always written)
jsonObject(fields) == <<<<"{">>>> \o jsonItems(fields) \o <<<<"}">>>>

\* a slice that is not nil
jsonArray(items) ==
    IF items = <<>> THEN <<<<"[", "]">>>>
    ELSE <<<<"[">>>> \o jsonItems(items) \o <<<<"]">>>>

jsonNull == <<<<"n", "u", "l", "l">>>>

MarshalFootnote(f) ==
    jsonObject(<<jsonField(Key_caller, <<jsonString(f.Caller)>>),
                 jsonField(Key_reference, <<jsonString(f.Reference)>>),
                 jsonField(Key_text, <<jsonString(f.Text)>>)>>)

RECURSIVE MarshalFootnotes(_)
MarshalFootnotes(fs) ==
    IF fs = <<>> THEN <<>> ELSE <<MarshalFootnote(fs[1])>> \o MarshalFootnotes(Tail(fs))

\* Footnotes has omitempty
MarshalVerse(v) ==
    jsonObject(<<jsonField(Key_number, <<Itoa(v.Number)>>),
                 jsonField(Key_text, <<jsonString(v.Text)>>)>>
               \o (IF v.Footnotes = <<>> THEN <<>>
                   ELSE <<jsonField(Key_footnotes,
                                    jsonArray(MarshalFootnotes(v.Footnotes)))>>))

RECURSIVE MarshalVerses(_)
MarshalVerses(vs) ==
    IF vs = <<>> THEN <<>> ELSE <<MarshalVerse(vs[1])>> \o MarshalVerses(Tail(vs))

\* Reference has omitempty
MarshalSection(s) ==
    jsonObject(<<jsonField(Key_level, <<Itoa(s.Level)>>),
                 jsonField(Key_title, <<jsonString(s.Title)>>)>>
               \o (IF s.Reference = <<>> THEN <<>>
                   ELSE <<jsonField(Key_reference, <<jsonString(s.Reference)>>)>>)
               \o <<jsonField(Key_verses, jsonArray(MarshalVerses(s.Verses)))>>)

RECURSIVE MarshalSections(_)
MarshalSections(ss) ==
    IF ss = <<>> THEN <<>> ELSE <<MarshalSection(ss[1])>> \o MarshalSections(Tail(ss))

MarshalChapter(c) ==
    jsonObject(<<jsonField(Key_number, <<Itoa(c.Number)>>),
                 jsonField(Key_sections, jsonArray(MarshalSections(c.Sections)))>>)

RECURSIVE MarshalChapters(_)
MarshalChapters(cs) ==
    IF cs = <<>> THEN <<>> ELSE <<MarshalChapter(cs[1])>> \o MarshalChapters(Tail(cs))

MarshalTOCEntry(e) ==
    jsonObject(<<jsonField(Key_level, <<Itoa(e.Level)>>),
                 jsonField(Key_text, <<jsonString(e.Text)>>)>>)

RECURSIVE MarshalTOCEntries(_)
MarshalTOCEntries(es) ==
    IF es = <<>> THEN <<>> ELSE <<MarshalTOCEntry(es[1])>> \o MarshalTOCEntries(Tail(es))

\* the lines of a *Document
MarshalDocument(d) ==
    jsonObject(<<jsonField(Key_id, <<jsonString(d.ID)>>),
                 jsonField(Key_header, <<jsonString(d.Header)>>),
                 jsonField(Key_toc,
                           IF d.TableOfContents.isNil THEN jsonNull
                           ELSE jsonArray(MarshalTOCEntries(d.TableOfContents.elems))),
                 jsonField(Key_main_title, <<jsonString(d.MainTitle)>>),
                 jsonField(Key_chapters,
                           IF d.Chapters.isNil THEN jsonNull
                           ELSE jsonArray(MarshalChapters(d.Chapters.elems))),
                 jsonField(Key_parsed_at, <<jsonString(ParsedAt)>>),
                 jsonField(Key_source_file, <<jsonString(d.SourceFile)>>)>>)

RECURSIVE MarshalDocuments(_)
MarshalDocuments(ds) ==
    IF ds = <<>> THEN <<>> ELSE <<MarshalDocument(ds[1])>> \o MarshalDocuments(Tail(ds))

\* the text of the lines
RECURSIVE JoinLines(_)
JoinLines(ls) ==
    IF ls = <<>> THEN <<>>
    ELSE IF Len(ls) = 1 THEN ls[1]
    ELSE JoinLines(SubSeq(ls, 1, Len(ls) \div 2)) \o <<"\n">>
         \o JoinLines(SubSeq(ls, Len(ls) \div 2 + 1, Len(ls)))

\* FormatJSON, were a single document wrapped in an array as well
FormatJSON_AlwaysArray(documents) ==
    IF Len(documents) = 0 THEN <<"[", "]">>
    ELSE JoinLines(jsonArray(MarshalDocuments(documents)))

\* FormatJSON (json.MarshalIndent cannot fail on these types: the error is nil)
FormatJSON(documents) ==
    IF Len(documents) = 0 THEN <<"[", "]">>
    ELSE IF Len(documents) = 1 THEN JoinLines(MarshalDocument(documents[1]))
    ELSE JoinLines(jsonArray(MarshalDocuments(documents)))

\* strings.ReplaceAll(s, old, new) for one-character strings
RECURSIVE ReplaceChar(_, _, _)
ReplaceChar(s, old, new) ==
    IF s = <<>> THEN <<>>
    ELSE <<IF s[1] = old THEN new ELSE s[1]>> \o ReplaceChar(Tail(s), old, new)

\* cleanTSVField, were the fields not trimmed
cleanTSVField_NoTrim(text) ==
    CollapseSpaces(ReplaceChar(ReplaceChar(ReplaceChar(text, "\t", " "), "\n", " "),
                               "\r", " "))

\* cleanTSVField
cleanTSVField(text) ==
    TrimSpace(CollapseSpaces(
        ReplaceChar(ReplaceChar(ReplaceChar(text, "\t", " "), "\n", " "), "\r", " ")))

\* the header row of FormatTSV, with its line feed
TSVHeader ==
    <<"B", "o", "o", "k", "\t", "C", "h", "a", "p", "t", "e", "r", "\t", "V", "e", "r", "s", "e", "\t", "S", "e", "c", "t", "i", "o", "n", "_", "T", "i", "t", "l", "e", "\t", "S", "e", "c", "t", "i", "o", "n", "_", "L", "e", "v", "e", "l", "\t", "V", "e", "r", "s", "e", "_", "T", "e", "x", "t", "\t", "F", "o", "o", "t", "n", "o", "t", "e", "s", "\t", "R", "e", "f", "e", "r", "e", "n", "c", "e", "s", "\n">>

\* fmt.Sprintf("%s:%s=%s", ..) of a footnote
FootnoteStr(f) == f.Caller \o <<":">> \o f.Reference \o <<"=">> \o f.Text

\* strings.Join(footnotes, "; ")
RECURSIVE JoinFootnotes(_)
JoinFootnotes(fs) ==
    IF fs = <<>> THEN <<>>
    ELSE IF Len(fs) = 1 THEN FootnoteStr(fs[1])
    ELSE FootnoteStr(fs[1]) \o <<";", " ">> \o JoinFootnotes(Tail(fs))

\* the row of one verse
TSVRow(bookID, chapter, section, verse) ==
    bookID \o <<"\t">> \o Itoa(chapter.Number) \o <<"\t">> \o Itoa(verse.Number)
    \o <<"\t">> \o cleanTSVField(section.Title) \o <<"\t">> \o Itoa(section.Level)
    \o <<"\t">> \o cleanTSVField(verse.Text)
    \o <<"\t">> \o cleanTSVField(JoinFootnotes(verse.Footnotes))
    \o <<"\t">> \o cleanTSVField(section.Reference) \o <<"\n">>

\* the loops of FormatTSV over verses, sections, chapters and documents
RECURSIVE TSVVerses(_, _, _, _)
TSVVerses(bookID, chapter, section, verses) ==
    IF verses = <<>> THEN <<>>
    ELSE TSVRow(bookID, chapter, section, verses[1])
         \o TSVVerses(bookID, chapter, section, Tail(verses))

RECURSIVE TSVSections(_, _, _)
TSVSections(bookID, chapter, sections) ==
    IF sections = <<>> THEN <<>>
    ELSE TSVVerses(bookID, chapter, sections[1], sections[1].Verses)
         \o TSVSections(bookID, chapter, Tail(sections))

RECURSIVE TSVChapters(_, _)
TSVChapters(bookID, chapters) ==
    IF chapters = <<>> THEN <<>>
    ELSE TSVSections(bookID, chapters[1], chapters[1].Sections)
         \o TSVChapters(bookID, Tail(chapters))

Unknown == <<"U", "N", "K", "N", "O", "W", "N">>

RECURSIVE TSVDocuments(_)
TSVDocuments(documents) ==
    IF documents = <<>> THEN <<>>
    ELSE TSVChapters(IF documents[1].ID = <<>> THEN Unknown ELSE documents[1].ID,
                     documents[1].Chapters.elems)
         \o TSVDocuments(Tail(documents))

\* FormatTSV (its error is always nil)
FormatTSV(documents) == TSVHeader \o TSVDocuments(documents)

\* The documents handed to the formatters are documents Parse returned
\* (root.go: one per file).  \id X<tab>Y and \v 1 a<tab>b have a tab inside.
LineIdTab == <<BackSlash, "i", "d", " ", "X", "\t", "Y">>
LineVTab == <<BackSlash, "v", " ", "1", " ", "a", "\t", "b">>

DefaultParseOptions ==
    [StrictMode |-> FALSE, IncludeFootnotes |-> TRUE, IncludeReferences |-> TRUE]

\* the lines of the files
FileEmpty == <<>>
FileSmall == <<LineId2, LineC2, LineV2>>
FileFull ==
    <<LineId, LineH, LineToc1, LineMt1, LineC1, LineS1, LineR, LineV1, LineVF,
      LineC2, LineS2, LineV2>>
FileTab == <<LineIdTab, LineC1, LineVTab>>

Files == {FileEmpty, FileSmall, FileFull, FileTab}

\* the document of a file (root.go: parser.Parse with the default options)
DocumentOf(file) == Parse(file, DefaultParseOptions).doc[1]

DocEmpty == DocumentOf(FileEmpty)
DocSmall == DocumentOf(FileSmall)
DocFull == DocumentOf(FileFull)
DocTab == DocumentOf(FileTab)

\* what Parse returns for the files; run hands a formatter only the documents
\* of the files Parse read without error
ParsedFiles == {Parse(file, DefaultParseOptions) : file \in Files}

DocPool == {r.doc[1] : r \in {p \in ParsedFiles : p.err = Nil}}

MaxDocs == 3    \* documents handed to a formatter at most

DocumentLists == UNION {[1..k -> DocPool] : k \in 0..MaxDocs}

\* the characters of a field: those cleanTSVField replaces, a space, a form
\* feed and a letter
FieldChars == {"\t", "\n", "\r", " ", "\f", "a"}

(***************************************************************************)
(* The helper functions on their own: a call of parseMarker or parseVerse  *)
(* with an argument drawn from the short strings over a few characters.    *)
(***************************************************************************)
\* a backslash, two tag characters, an upper-case letter, a space, "-", "*"
MarkerChars == {BackSlash, "i", "d", "X", " ", "-", "*"}

\* digits, a letter, a space and a tab
VerseChars == {"1", "2", "a", " ", "\t"}

StringsOver(chars, n) == UNION {[1..k -> chars] : k \in 0..n}

\* cleanTSVField is handed any text
FieldInputs == StringsOver(FieldChars, MaxLen)

\* Parse hands parseMarker a trimmed line that is not empty
MarkerInputs == {s \in StringsOver(MarkerChars, MaxLen) : s # <<>> /\ TrimSpace(s) = s}

\* Parse hands parseVerse the trimmed content of a marker
VerseInputs == {s \in StringsOver(VerseChars, MaxLen) : TrimSpace(s) = s}

\* Verse bodies put together from pieces: fragments of plain text and footnote
\* blocks \f caller \fr reference \ft text \f* (the verse of TestParseFootnotes
\* is "A ", a block, " B").  A piece is [block, caller, ref, text]; a plain
\* fragment has only its text.
MaxPieces == 3

Plain(s) == [block |-> FALSE, caller |-> <<>>, ref |-> <<>>, text |-> s]
Block(c, r, t) == [block |-> TRUE, caller |-> c, ref |-> r, text |-> t]

NoteText == <<"N", "o", "t", "e", " ", "t", "e", "x", "t">>

PlainPieces ==
    {Plain(<<"A", " ">>), Plain(<<" ", "B">>), Plain(<<" ">>), Plain(<<"A">>),
     Plain(<<BackSlash, "f", " ">>)}

BlockPieces ==
    {Block(c, r, t) : c \in {<<" ", "+", " ">>, <<"+">>},
                      r \in {<<" ", "1", ":", "1", " ">>, <<"1">>},
                      t \in {<<" ">> \o NoteText, <<"N", " ">>}}

Pieces == PlainPieces \cup BlockPieces

\* the text of a piece, and of a sequence of pieces
RenderPiece(p) ==
    IF p.block
    THEN <<BackSlash, "f">> \o p.caller \o <<BackSlash, "f", "r">> \o p.ref
         \o <<BackSlash, "f", "t">> \o p.text \o <<BackSlash, "f", "*">>
    ELSE p.text

RECURSIVE Render(_)
Render(ps) == IF ps = <<>> THEN <<>> ELSE RenderPiece(ps[1]) \o Render(Tail(ps))

\* the content of the marker \v 1 <body>
VerseContent(ps) == <<"1", " ">> \o Render(ps)

\* Parse hands parseVerse the trimmed content of a marker
VerseBodies ==
    {ps \in UNION {[1..k -> Pieces] : k \in 1..MaxPieces} :
        TrimSpace(VerseContent(ps)) = VerseContent(ps)}

FnInit ==
    /\ options = [StrictMode |-> FALSE, IncludeFootnotes |-> TRUE, IncludeReferences |-> TRUE]
    /\ source = {}
    /\ input = <<>>
    /\ lineNumber = 0
    /\ doc = NewDocument(SourceFile)
    /\ currentChapter = Nil
    /\ currentSection = Nil
    /\ pc = "off"
    /\ ret = [doc |-> Nil, err |-> Nil]
    /\ fnPc = "call"
    /\ fnOut = Nil
    /\ calls = <<>>
    /\ \/ \E s \in MarkerInputs :
              fnArg = [fn |-> "parseMarker", text |-> s, flag |-> FALSE, parts |-> <<>>,
                       docs |-> <<>>]
       \/ \E s \in VerseInputs, b \in BOOLEAN :
              fnArg = [fn |-> "parseVerse", text |-> s, flag |-> b, parts |-> <<>>,
                       docs |-> <<>>]
       \/ \E ps \in VerseBodies, b \in BOOLEAN :
              fnArg = [fn |-> "parseVerse", text |-> VerseContent(ps), flag |-> b,
                       parts |-> ps, docs |-> <<>>]
       \/ \E s \in FieldInputs :
              fnArg = [fn |-> "cleanTSVField", text |-> s, flag |-> FALSE, parts |-> <<>>,
                       docs |-> <<>>]
       \/ \E ds \in DocumentLists, f \in {"FormatJSON", "FormatTSV"} :
              fnArg = [fn |-> f, text |-> <<>>, flag |-> FALSE, parts |-> <<>>,
                       docs |-> ds]

CallParseMarker ==
    /\ fnPc = "call"
    /\ fnArg.fn = "parseMarker"
    /\ fnOut' = Some(parseMarker(fnArg.text, 1))
    /\ fnPc' = "return"
    /\ UNCHANGED <<parseVars, fnArg, calls>>

CallParseVerse ==
    /\ fnPc = "call"
    /\ fnArg.fn = "parseVerse"
    /\ fnOut' = Some(parseVerse(fnArg.text, fnArg.flag))
    /\ fnPc' = "return"
    /\ UNCHANGED <<parseVars, fnArg, calls>>

CallCleanTSVField ==
    /\ fnPc = "call"
    /\ fnArg.fn = "cleanTSVField"
    /\ fnOut' = Some(cleanTSVField(fnArg.text))
    /\ fnPc' = "return"
    /\ UNCHANGED <<parseVars, fnArg, calls>>

CallFormatJSON ==
    /\ fnPc = "call"
    /\ fnArg.fn = "FormatJSON"
    /\ fnOut' = Some(FormatJSON(fnArg.docs))
    /\ fnPc' = "return"
    /\ UNCHANGED <<parseVars, fnArg, calls>>

CallFormatTSV ==
    /\ fnPc = "call"
    /\ fnArg.fn = "FormatTSV"
    /\ fnOut' = Some(FormatTSV(fnArg.docs))
    /\ fnPc' = "return"
    /\ UNCHANGED <<parseVars, fnArg, calls>>

FnNext ==
    \/ CallParseMarker
    \/ CallParseVerse
    \/ CallCleanTSVField
    \/ CallFormatJSON
    \/ CallFormatTSV

FnSpec == FnInit /\ [][FnNext]_vars

(***************************************************************************)
(* Third specification: one Parser shared by two Parse invocations, whose  *)
(* loop turns interleave in any order.  The Parser holds the options and   *)
(* the patterns; what Parse declares (doc, currentChapter, currentSection, *)
(* the scanner and lineNumber) belongs to the invocation.                  *)
(***************************************************************************)
MaxSharedLines == 2    \* lines each invocation reads at most

Invocations == {1, 2}

SharedLines == {LineC1, LineS1, LineV1, LineQ}

\* what Parse declares before its loop
NewCall ==
    [input |-> <<>>, lineNumber |-> 0, doc |-> NewDocument(SourceFile),
     currentChapter |-> Nil, currentSection |-> Nil, pc |-> "scan",
     ret |-> [doc |-> Nil, err |-> Nil]]

SharedInit ==
    /\ options \in AllOptions
    /\ source = {}
    /\ input = <<>>
    /\ lineNumber = 0
    /\ doc = NewDocument(SourceFile)
    /\ currentChapter = Nil
    /\ currentSection = Nil
    /\ pc = "off"
    /\ ret = [doc |-> Nil, err |-> Nil]
    /\ fnArg = <<>>
    /\ fnOut = Nil
    /\ fnPc = "idle"
    /\ calls = [i \in Invocations |-> NewCall]

\* the cursors, were they fields of the Parser (here: those of invocation 1)
FrameOf_SharedCursor(i) ==
    [doc |-> calls[i].doc, currentChapter |-> calls[1].currentChapter,
     currentSection |-> calls[1].currentSection, err |-> Nil]

\* the frame of invocation i before a turn of its loop
FrameOf(i) ==
    [doc |-> calls[i].doc, currentChapter |-> calls[i].currentChapter,
     currentSection |-> calls[i].currentSection, err |-> Nil]

\* invocation i reads a line and runs one turn of its loop
SharedScan(i) ==
    \E text \in SharedLines :
        /\ calls[i].pc = "scan"
        /\ Len(calls[i].input) < MaxSharedLines
        /\ LET c  == calls[i]
               st == LoopBody(FrameOf(i), text, options, c.lineNumber + 1)
           IN  calls' = [calls EXCEPT ![i] =
                   IF st.err # Nil
                   THEN [c EXCEPT !.input = Append(@, text), !.lineNumber = @ + 1,
                                  !.pc = "done", !.ret = [doc |-> Nil, err |-> st.err]]
                   ELSE [c EXCEPT !.input = Append(@, text), !.lineNumber = @ + 1,
                                  !.doc = st.doc,
                                  !.currentChapter = st.currentChapter,
                                  !.currentSection = st.currentSection]]
        /\ UNCHANGED <<parseVars, fnVars>>

\* the input of invocation i ends: final flush and return
SharedReturn(i) ==
    /\ calls[i].pc = "scan"
    /\ calls' = [calls EXCEPT ![i] =
           [@ EXCEPT !.doc = FinalFlush(FrameOf(i)).doc,
                     !.currentChapter = FinalFlush(FrameOf(i)).currentChapter,
                     !.pc = "done",
                     !.ret = Return(FrameOf(i), FALSE)]]
    /\ UNCHANGED <<parseVars, fnVars>>

SharedNext ==
    \/ \E i \in Invocations : SharedScan(i)
    \/ \E i \in Invocations : SharedReturn(i)

SharedSpec == SharedInit /\ [][SharedNext]_vars

(***************************************************************************)
(* What the properties below speak about: the lines read, classified by    *)
(* their marker, and the parts of a returned document.                     *)
(***************************************************************************)
Last(seq) == seq[Len(seq)]

Returned == pc = "done"
Succeeded == pc = "done" /\ ret.err = Nil /\ ret.doc # Nil
Failed == pc = "done" /\ ret.err # Nil
ReadFailed == Failed /\ ret.err[1].kind = "InputReadFailure"

\* the state machine returns what Parse, as a function of the lines read,
\* returns, unless the reader failed
ParseAgrees == (Returned /\ ~ReadFailed) => ret = Parse(input, options)

\* the marker of a physical line, and whether the line has one
LineMarker(text) == parseMarker(TrimSpace(text), 0)
HasTag(text, tags) ==
    LET m == LineMarker(text)
    IN  m.ok /\ m.Tag \in tags

\* the numbers of the \c marker lines of `lines`, in the order of the lines
RECURSIVE ChapterMarkerNumbers(_)
ChapterMarkerNumbers(lines) ==
    IF lines = <<>> THEN <<>>
    ELSE (IF HasTag(lines[1], {<<"c">>})
          THEN <<Atoi(LineMarker(lines[1]).Content).num>> ELSE <<>>)
         \o ChapterMarkerNumbers(Tail(lines))

RECURSIVE ChapterNumbers(_)
ChapterNumbers(chapters) ==
    IF chapters = <<>> THEN <<>>
    ELSE <<chapters[1].Number>> \o ChapterNumbers(Tail(chapters))

\* all sections of a document, chapter after chapter
RECURSIVE SectionsOf(_)
SectionsOf(chapters) ==
    IF chapters = <<>> THEN <<>>
    ELSE chapters[1].Sections \o SectionsOf(Tail(chapters))

RECURSIVE Headings(_)
Headings(sections) ==
    IF sections = <<>> THEN <<>>
    ELSE <<[Level |-> sections[1].Level, Title |-> sections[1].Title]>>
         \o Headings(Tail(sections))

\* the sections the lines open, by the rules of the specification: a heading
\* opens the section it names, a verse opens a level-1 section without a
\* title when none is open, and a chapter marker closes the open section
RECURSIVE OpenedSections(_, _)
OpenedSections(lines, open) ==
    IF lines = <<>> THEN <<>>
    ELSE LET m == LineMarker(lines[1])
             rest == Tail(lines)
         IN  CASE HasTag(lines[1], SectionTags) ->
                      <<[Level |-> DigitVal(m.Tag[2]), Title |-> m.Content]>>
                      \o OpenedSections(rest, TRUE)
               [] HasTag(lines[1], {<<"v">>}) ->
                      (IF open THEN <<>> ELSE <<[Level |-> 1, Title |-> <<>>]>>)
                      \o OpenedSections(rest, TRUE)
               [] HasTag(lines[1], {<<"c">>}) -> OpenedSections(rest, FALSE)
               [] OTHER -> OpenedSections(rest, open)

(***************************************************************************)
(* C1.  On every successful parse the chapters of the returned document    *)
(* are the \c marker lines of the input: one chapter per marker line, in   *)
(* the order of the lines, with the marker's number, whatever the numbers  *)
(* are (\c 2 then \c 1 gives the chapters 2, 1).                           *)
(***************************************************************************)
C1_ChaptersFollowMarkers ==
    Succeeded => ChapterNumbers(ret.doc[1].Chapters.elems) = ChapterMarkerNumbers(input)

\* \c 2 then \c 1 has been parsed into the chapters 2, 1
C1_Witness ==
    /\ Succeeded
    /\ Len(input) >= 2
    /\ SubSeq(input, 1, 2) = <<LineC2, LineC1>>
    /\ ChapterNumbers(ret.doc[1].Chapters.elems) = <<2, 1>>

(***************************************************************************)
(* C2.  At the end of the input the open section is added to its chapter   *)
(* and the open chapter to the document, so that nothing parsed after the  *)
(* last heading or chapter marker is lost: the section that is open when   *)
(* Parse returns a document is the last section of that document.          *)
(***************************************************************************)
C2_NoTrailingContentLost ==
    (Succeeded /\ currentSection # Nil) =>
        /\ ret.doc[1].Chapters.elems # <<>>
        /\ Last(ret.doc[1].Chapters.elems).Sections # <<>>
        /\ Last(Last(ret.doc[1].Chapters.elems).Sections) = currentSection[1]

(***************************************************************************)
(* C3.  An open section is added to a chapter before a heading replaces it *)
(* or a chapter marker clears it: the sections of a returned document are  *)
(* the sections that were opened, explicit and implicit, each once and in  *)
(* the order in which they were opened.                                    *)
(***************************************************************************)
C3_EverySectionKept ==
    Succeeded =>
        Headings(SectionsOf(ret.doc[1].Chapters.elems)) = OpenedSections(input, FALSE)

\* a turn of the loop for a \v marker line that did not fail
VerseTurn ==
    /\ pc = "scan" /\ pc' = "scan"
    /\ Len(input') = Len(input) + 1
    /\ HasTag(Last(input'), {<<"v">>})

\* the example of C4: the document of \id X, \c 1, \v 1 Hello.
C4_Example ==
    (Succeeded /\ input = <<LineId, LineC1, LineV1>>) =>
        ret.doc[1].Chapters.elems =
            <<[Number |-> 1,
               Sections |-> <<[Level |-> 1, Title |-> <<>>, Reference |-> <<>>,
                               Verses |-> <<[Number |-> 1,
                                             Text |-> <<"H", "e", "l", "l", "o", ".">>,
                                             Footnotes |-> <<>>]>>]>>]>>

(***************************************************************************)
(* C4.  A verse marker that arrives while no section is open makes Parse   *)
(* open a section of level 1 with an empty title and an empty reference    *)
(* that holds just that verse; and the input \id X, \c 1, \v 1 Hello.      *)
(* gives one chapter with one such section with the verse 1, "Hello.".     *)
(***************************************************************************)
C4_ImplicitSection ==
    /\ []C4_Example
    /\ [][(VerseTurn /\ currentSection = Nil) =>
              /\ currentSection' # Nil
              /\ currentSection'[1].Level = 1
              /\ currentSection'[1].Title = <<>>
              /\ currentSection'[1].Reference = <<>>
              /\ Len(currentSection'[1].Verses) = 1
              /\ currentSection'[1].Verses[1].Number =
                     Atoi(SplitN2(LineMarker(Last(input')).Content, <<" ">>)[1]).num]_vars

\* the example has been parsed
C4_Witness ==
    /\ Succeeded
    /\ input = <<LineId, LineC1, LineV1>>
    /\ Len(ret.doc[1].Chapters.elems) = 1

(***************************************************************************)
(* C5.  In strict mode a well-formed marker line with a tag Parse does not *)
(* know makes Parse fail with an unknown-marker error that names the line, *)
(* and no document is returned; in lenient mode Parse goes on, and what it *)
(* returns is what it returns for the input without that line.             *)
(***************************************************************************)
IsUnknown(text) ==
    LET m == LineMarker(text)
    IN  m.ok /\ m.Tag \notin KnownTags

RemoveAt(seq, i) == SubSeq(seq, 1, i - 1) \o SubSeq(seq, i + 1, Len(seq))

\* the same document, or an error of the same kind
SameOutcome(a, b) ==
    /\ a.doc = b.doc
    /\ (a.err = Nil) = (b.err = Nil)
    /\ a.err # Nil /\ b.err # Nil => a.err[1].kind = b.err[1].kind

C5_UnknownMarker ==
    \A i \in 1..Len(input) :
        IsUnknown(input[i]) =>
            /\ options.StrictMode =>
                   /\ i = Len(input)
                   /\ Failed
                   /\ ret.doc = Nil
                   /\ ret.err[1] = [kind |-> "UnknownMarker", line |-> Some(i)]
            /\ ~options.StrictMode =>
                   /\ Failed => ret.err[1].kind # "UnknownMarker"
                   /\ Succeeded => Parse(RemoveAt(input, i), options).doc = ret.doc
                   /\ (Returned /\ ~ReadFailed) =>
                          SameOutcome(Parse(RemoveAt(input, i), options), ret)

\* strict mode has failed on the unknown marker of line 3
C5_Witness ==
    /\ options.StrictMode
    /\ input = <<LineBlank, LineC1, LineQ>>
    /\ Failed
    /\ ret.err[1].line = Some(3)

(***************************************************************************)
(* C6.  A \c marker whose content is no integer and a \v marker whose      *)
(* verse number is no integer make Parse fail, in strict and in lenient    *)
(* mode alike: such a line is never skipped.                               *)
(***************************************************************************)
\* the part of s before its first character of the set cls
Before(s, cls) ==
    IF \A i \in 1..Len(s) : s[i] \notin cls THEN s
    ELSE SubSeq(s, 1, (CHOOSE i \in 1..Len(s) :
                          s[i] \in cls /\ \A j \in 1..(i-1) : s[j] \notin cls) - 1)

\* the verse-number token: the content up to its first white space
VerseToken(content) == Before(content, WhiteSpace)

BadNumber(text) ==
    LET m == LineMarker(text)
    IN  \/ m.ok /\ m.Tag = <<"c">> /\ ~Atoi(m.Content).ok
        \/ m.ok /\ m.Tag = <<"v">> /\ ~Atoi(VerseToken(m.Content)).ok

C6_BadNumberIsFatal ==
    \A i \in 1..Len(input) :
        BadNumber(input[i]) =>
            /\ i = Len(input)
            /\ Failed
            /\ ret.doc = Nil
            /\ ret.err[1].kind \in {"InvalidChapterNumber", "InvalidVerseNumber"}

\* lenient mode has failed on a verse marker without a number
C6_Witness ==
    /\ ~options.StrictMode
    /\ input = <<LineC1, LineVx>>
    /\ Failed
    /\ ret.err[1].kind = "InvalidVerseNumber"

(***************************************************************************)
(* C7.  Parse never returns a partial document: it returns a document and  *)
(* no error, or an error and no document, and nothing before it returns.   *)
(***************************************************************************)
C7_NoPartialDocument ==
    /\ pc = "scan" => ret = [doc |-> Nil, err |-> Nil]
    /\ Returned => (ret.doc = Nil) # (ret.err = Nil)
    /\ Failed => ret.doc = Nil

\* Parse has failed after it had put a chapter into the document
C7_Witness ==
    /\ Failed
    /\ doc.Chapters.elems # <<>>
    /\ ret.doc = Nil

(***************************************************************************)
(* C8.  Every fatal error Parse returns, of every kind, carries the        *)
(* 1-based number of the line at which it occurred.                        *)
(***************************************************************************)
C8_EveryErrorNamesLine ==
    Failed => ret.err[1].line = Some(lineNumber)

(***************************************************************************)
(* C9.  parseMarker on a trimmed line.  As claimed: it accepts the line    *)
(* only if it is a backslash, a tag of one or more characters of [a-z0-9], *)
(* an optional "*", white space and then the content; a line that does not *)
(* start with a backslash fails as not a marker, and every other line that *)
(* has not this shape, such as a tag directly followed by a character that *)
(* is no white space (\id-X), fails as an invalid marker format.           *)
(***************************************************************************)
MarkerReturned == fnPc = "return" /\ fnArg.fn = "parseMarker"

\* what follows the tag and the optional "*" of a line that starts with a backslash
AfterTag(line) ==
    LET rest == DropPrefix(Tail(line), PrefixLen(Tail(line), TagChars))
    IN  IF rest # <<>> /\ rest[1] = "*" THEN Tail(rest) ELSE rest

\* the claimed shape: after the tag, the line ends or white space follows
ClaimedShape(line) ==
    /\ line[1] = BackSlash
    /\ PrefixLen(Tail(line), TagChars) >= 1
    /\ AfterTag(line) = <<>> \/ AfterTag(line)[1] \in WhiteSpace

C9_WhiteSpaceRequired ==
    MarkerReturned =>
        LET line == fnArg.text
            m == fnOut[1]
        IN  /\ line[1] # BackSlash => ~m.ok /\ m.err = "NotAMarker"
            /\ (line[1] = BackSlash /\ ~ClaimedShape(line)) =>
                   ~m.ok /\ m.err = "InvalidMarkerFormat"
            /\ ClaimedShape(line) => m.ok

(***************************************************************************)
(* C9, as amended.  parseMarker accepts a trimmed line exactly if it is a  *)
(* backslash directly followed by a character of [a-z0-9]: the tag is the  *)
(* longest run of such characters, and the content is what follows the tag *)
(* and an optional "*", trimmed, whether white space separates them or not *)
(* (\id-X has the tag id and the content -X).  A line that does not start  *)
(* with a backslash fails as not a marker; a backslash that no character   *)
(* of [a-z0-9] follows fails as an invalid marker format.                  *)
(***************************************************************************)
C9_TagThenAnything ==
    MarkerReturned =>
        LET line == fnArg.text
            m == fnOut[1]
            tagged == Len(line) >= 2 /\ line[2] \in TagChars
        IN  /\ line[1] # BackSlash => ~m.ok /\ m.err = "NotAMarker"
            /\ (line[1] = BackSlash /\ ~tagged) => ~m.ok /\ m.err = "InvalidMarkerFormat"
            /\ (line[1] = BackSlash /\ tagged) =>
                   /\ m.ok
                   /\ m.Tag = SubSeq(line, 2, 1 + PrefixLen(Tail(line), TagChars))
                   /\ m.Content = TrimSpace(AfterTag(line))

\* parseMarker has accepted \id-X
C9_Witness ==
    /\ MarkerReturned
    /\ fnArg.text = <<BackSlash, "i", "d", "-", "X">>
    /\ fnOut[1].ok
    /\ fnOut[1].Tag = <<"i", "d">>
    /\ fnOut[1].Content = <<"-", "X">>

(***************************************************************************)
(* C10.  For the content of a \v marker that is a number N, a run of one   *)
(* or more spaces or tabs, and a body, the verse has the number N and its  *)
(* body is what follows the whole run; a verse marker without a body has   *)
(* the empty body.  (The verse text is the body itself when footnotes are  *)
(* not included, and the cleaned body when they are.)                      *)
(***************************************************************************)
VerseReturned == fnPc = "return" /\ fnArg.fn = "parseVerse"

SpaceOrTab == {" ", "\t"}

VerseNumberPart(content) == SubSeq(content, 1, PrefixLen(content, Digits))
AfterNumber(content) == DropPrefix(content, PrefixLen(content, Digits))
VerseBody(content) ==
    DropPrefix(AfterNumber(content), PrefixLen(AfterNumber(content), SpaceOrTab))

\* N, then nothing, or a run of spaces and tabs and a body
NumberRunBody(content) ==
    /\ VerseNumberPart(content) # <<>>
    /\ AfterNumber(content) = <<>> \/ AfterNumber(content)[1] \in SpaceOrTab

C10_BodyAfterWhiteSpaceRun ==
    (VerseReturned /\ NumberRunBody(fnArg.text)) =>
        /\ fnOut[1].ok
        /\ fnOut[1].verse[1].Number = DecimalValue(VerseNumberPart(fnArg.text))
        /\ fnOut[1].verse[1].Text =
               IF fnArg.flag THEN removeFootnoteMarkers(VerseBody(fnArg.text))
               ELSE VerseBody(fnArg.text)

(***************************************************************************)
(* C11.  In every document returned by Parse the table of contents is an   *)
(* empty sequence, never a nil one, when the input has no \toc marker      *)
(* line, and the footnotes of every verse without a footnote block (all    *)
(* verses, when footnotes are not included) are an empty sequence; this    *)
(* covers the empty input.                                                 *)
(***************************************************************************)
RECURSIVE VersesOf(_)
VersesOf(sections) ==
    IF sections = <<>> THEN <<>>
    ELSE sections[1].Verses \o VersesOf(Tail(sections))

AllVerses(d) == VersesOf(SectionsOf(d.Chapters.elems))

NoTocMarker(lines) == \A i \in 1..Len(lines) : ~HasTag(lines[i], TocTags)

NoFootnoteBlock(lines) ==
    \A i \in 1..Len(lines) :
        HasTag(lines[i], {<<"v">>}) =>
            footnoteRegexFindAll(LineMarker(lines[i]).Content, 1) = <<>>

C11_NeverNil ==
    Succeeded =>
        /\ NoTocMarker(input) => ret.doc[1].TableOfContents = MakeSlice
        /\ (~options.IncludeFootnotes \/ NoFootnoteBlock(input)) =>
               \A i \in 1..Len(AllVerses(ret.doc[1])) :
                   AllVerses(ret.doc[1])[i].Footnotes = <<>>

(***************************************************************************)
(* C12.  With footnotes included, a verse body put together from plain     *)
(* fragments and k well-formed footnote blocks yields exactly the k        *)
(* footnotes of the blocks, left to right, each with caller, reference and *)
(* text trimmed, and the verse text is the body without the blocks, every  *)
(* run of spaces collapsed to one space, trimmed.  The verse               *)
(* "1 A \f + \fr 1:1 \ft Note text\f* B" gives the text "A B" and the one  *)
(* footnote {+, 1:1, Note text}.                                           *)
(***************************************************************************)
RECURSIVE BlockFootnotes(_)
BlockFootnotes(ps) ==
    IF ps = <<>> THEN <<>>
    ELSE (IF ps[1].block
          THEN <<[Caller    |-> TrimSpace(ps[1].caller),
                  Reference |-> TrimSpace(ps[1].ref),
                  Text      |-> TrimSpace(ps[1].text)]>>
          ELSE <<>>) \o BlockFootnotes(Tail(ps))

RECURSIVE PlainText(_)
PlainText(ps) ==
    IF ps = <<>> THEN <<>>
    ELSE (IF ps[1].block THEN <<>> ELSE ps[1].text) \o PlainText(Tail(ps))

\* s with every run of spaces shortened to one space
RECURSIVE SqueezeSpaces(_)
SqueezeSpaces(s) ==
    IF Len(s) < 2 THEN s
    ELSE IF s[1] = " " /\ s[2] = " " THEN SqueezeSpaces(Tail(s))
    ELSE <<s[1]>> \o SqueezeSpaces(Tail(s))

FootnoteExample ==
    <<Plain(<<"A", " ">>), Block(<<" ", "+", " ">>, <<" ", "1", ":", "1", " ">>,
                                 <<" ">> \o NoteText), Plain(<<" ", "B">>)>>

C12_FootnoteBlocks ==
    (VerseReturned /\ fnArg.parts # <<>> /\ fnArg.flag) =>
        /\ fnOut[1].ok
        /\ fnOut[1].verse[1].Number = 1
        /\ fnOut[1].verse[1].Footnotes = BlockFootnotes(fnArg.parts)
        /\ fnOut[1].verse[1].Text = TrimSpace(SqueezeSpaces(PlainText(fnArg.parts)))
        /\ fnArg.parts = FootnoteExample =>
               /\ fnOut[1].verse[1].Text = <<"A", " ", "B">>
               /\ fnOut[1].verse[1].Footnotes =
                      <<[Caller |-> <<"+">>, Reference |-> <<"1", ":", "1">>,
                         Text |-> NoteText]>>

\* plain text, a block, plain text: the two spaces left around the block are
\* collapsed to one
C12_Witness ==
    /\ VerseReturned
    /\ fnArg.flag
    /\ Len(fnArg.parts) = 3
    /\ fnArg.parts[1] = Plain(<<"A", " ">>)
    /\ fnArg.parts[2].block
    /\ fnArg.parts[3] = Plain(<<" ", "B">>)
    /\ fnOut[1].ok
    /\ Len(fnOut[1].verse[1].Footnotes) = 1
    /\ fnOut[1].verse[1].Text = <<"A", " ", "B">>

(***************************************************************************)
(* C13.  With footnotes not included, every parsed verse has no footnotes  *)
(* and its text is the raw body as it followed the verse number and one    *)
(* space: footnote markup is kept as written, no space is collapsed and    *)
(* nothing is trimmed (the empty text when nothing follows the number).    *)
(***************************************************************************)
C13_RawBodyKept ==
    (VerseReturned /\ ~fnArg.flag /\ fnOut[1].ok) =>
        /\ fnOut[1].verse[1].Footnotes = <<>>
        /\ IF AfterNumber(fnArg.text) = <<>>
           THEN fnOut[1].verse[1].Text = <<>>
           ELSE AfterNumber(fnArg.text) = <<" ">> \o fnOut[1].verse[1].Text
        /\ fnArg.parts # <<>> => fnOut[1].verse[1].Text = Render(fnArg.parts)

\* the verse of the example, with its block and the two spaces around it kept
C13_Witness ==
    /\ VerseReturned
    /\ ~fnArg.flag
    /\ fnArg.parts = FootnoteExample
    /\ fnOut[1].ok
    /\ fnOut[1].verse[1].Footnotes = <<>>
    /\ fnOut[1].verse[1].Text = Render(FootnoteExample)
    /\ Index(fnOut[1].verse[1].Text, <<BackSlash, "f", "*">>) # 0

(***************************************************************************)
(* C14.  Two Parse invocations on one Parser, their loop turns interleaved *)
(* in any order (one after the other included), each return what Parse     *)
(* returns for their own input when run alone; no step of one invocation   *)
(* changes the document, the cursors or the return of the other, and the   *)
(* Parser's options are never written.                                     *)
(***************************************************************************)
C14_SharedParser ==
    /\ [](\A i \in Invocations :
             calls[i].pc = "done" => calls[i].ret = Parse(calls[i].input, options))
    /\ [][/\ options' = options
          /\ \A i, j \in Invocations :
                 (i # j /\ calls'[i] # calls[i]) => calls'[j] = calls[j]]_vars

\* invocation 2 has a section open while invocation 1, which read other lines,
\* has returned its own document
C14_Witness ==
    /\ calls # <<>>
    /\ calls[1].pc = "done"
    /\ calls[1].input = <<LineC1, LineV1>>
    /\ calls[1].ret.err = Nil
    /\ Len(calls[1].ret.doc[1].Chapters.elems) = 1
    /\ calls[2].pc = "scan"
    /\ calls[2].input = <<LineS1>>
    /\ calls[2].currentSection # Nil
    /\ calls[2].currentChapter = Nil

(***************************************************************************)
(* C15.  The turn of the loop for a \r marker changes nothing but the      *)
(* reference of the open section, which it sets to the marker's content    *)
(* (whatever the reference was: the last \r wins), and only if references  *)
(* are included and a section is open; otherwise the document and both     *)
(* cursors are unchanged.  With references not included every section of a *)
(* returned document has the empty reference.                              *)
(***************************************************************************)
\* this step is a turn of the loop for a line with one of the tags
TurnFor(tags) ==
    /\ pc = "scan"
    /\ Len(input') = Len(input) + 1
    /\ HasTag(Last(input'), tags)

C15_ReferenceOnlyIfEnabledAndOpen ==
    /\ []((Succeeded /\ ~options.IncludeReferences) =>
             \A i \in 1..Len(SectionsOf(ret.doc[1].Chapters.elems)) :
                 SectionsOf(ret.doc[1].Chapters.elems)[i].Reference = <<>>)
    /\ [][TurnFor({<<"r">>}) =>
             /\ pc' = "scan"
             /\ doc' = doc
             /\ currentChapter' = currentChapter
             /\ currentSection' =
                    IF options.IncludeReferences /\ currentSection # Nil
                    THEN Some([currentSection[1] EXCEPT
                                  !.Reference = LineMarker(Last(input')).Content])
                    ELSE currentSection]_vars

\* \s1 A, \r R, \r Q: the open section has the reference of the last \r
C15_Witness ==
    /\ pc = "scan"
    /\ options.IncludeReferences
    /\ input = <<LineS1, LineR, LineR2>>
    /\ currentSection # Nil
    /\ currentSection[1].Title = <<"A">>
    /\ currentSection[1].Reference = <<"Q">>

(***************************************************************************)
(* C16.  A line that is not blank and that parseMarker rejects (no         *)
(* backslash at its start, or a malformed marker): in strict mode Parse    *)
(* returns at that line with parseMarker's error and no document; in       *)
(* lenient mode the turn leaves the document and both cursors as they      *)
(* were, and what Parse returns is what it returns for the input without   *)
(* the line (the same document, or an error of the same kind).             *)
(***************************************************************************)
IsInvalid(text) == TrimSpace(text) # <<>> /\ ~LineMarker(text).ok

InvalidTurn ==
    /\ pc = "scan"
    /\ Len(input') = Len(input) + 1
    /\ IsInvalid(Last(input'))

C16_TokenizationFailure ==
    /\ [](\A i \in 1..Len(input) :
             IsInvalid(input[i]) =>
                 /\ options.StrictMode =>
                        /\ i = Len(input)
                        /\ Failed
                        /\ ret.doc = Nil
                        /\ ret.err[1] = [kind |-> LineMarker(input[i]).err,
                                         line |-> Some(i)]
                 /\ (~options.StrictMode /\ Returned /\ ~ReadFailed) =>
                        SameOutcome(Parse(RemoveAt(input, i), options), ret))
    /\ [][(InvalidTurn /\ ~options.StrictMode) =>
              /\ pc' = "scan"
              /\ doc' = doc
              /\ currentChapter' = currentChapter
              /\ currentSection' = currentSection]_vars

\* lenient mode has read text without a backslash and a lone backslash, and
\* returns the chapter of the third line
C16_Witness ==
    /\ ~options.StrictMode
    /\ input = <<LineText, LineBackSlash, LineC1>>
    /\ Succeeded
    /\ ChapterNumbers(ret.doc[1].Chapters.elems) = <<1>>

(***************************************************************************)
(* C17.  Blank lines (empty, or white space only) never change what Parse  *)
(* returns, in either mode: the turn for a blank line leaves the document  *)
(* and both cursors as they were, and Parse returns for an input what it   *)
(* returns for the input without any one of its blank lines (the same      *)
(* document, or an error of the same kind).  The line number of an error   *)
(* counts every line read, the blank ones included: it is the number of    *)
(* lines read, one more than for the input without the blank line.         *)
(***************************************************************************)
IsBlank(text) == TrimSpace(text) = <<>>

BlankTurn ==
    /\ pc = "scan"
    /\ Len(input') = Len(input) + 1
    /\ IsBlank(Last(input'))

C17_BlankLines ==
    /\ []((Returned /\ ~ReadFailed) =>
             /\ Failed => ret.err[1].line = Some(Len(input))
             /\ \A i \in 1..Len(input) :
                    IsBlank(input[i]) =>
                        LET without == Parse(RemoveAt(input, i), options)
                        IN  /\ SameOutcome(without, ret)
                            /\ Failed => without.err[1].line = Some(Len(input) - 1))
    /\ [][BlankTurn =>
              /\ pc' = "scan"
              /\ lineNumber' = lineNumber + 1
              /\ doc' = doc
              /\ currentChapter' = currentChapter
              /\ currentSection' = currentSection]_vars

\* an empty line, a line of white space, and \v x: the error names line 3
C17_Witness ==
    /\ input = <<LineEmpty, LineTab, LineVx>>
    /\ Failed
    /\ ret.err[1] = [kind |-> "InvalidVerseNumber", line |-> Some(3)]

(***************************************************************************)
(* C18.  For an input of zero lines, or of blank lines only, Parse returns *)
(* no error and a document whose chapters are an empty sequence that is    *)
(* not nil, in strict and in lenient mode.                                 *)
(***************************************************************************)
AllBlank(lines) == \A i \in 1..Len(lines) : IsBlank(lines[i])

C18_EmptyInput ==
    (Returned /\ ~ReadFailed /\ AllBlank(input)) =>
        /\ Succeeded
        /\ ret.doc[1].Chapters = MakeSlice

\* strict mode has returned for three blank lines
C18_Witness ==
    /\ options.StrictMode
    /\ input = <<LineEmpty, LineBlank, LineTab>>
    /\ Succeeded
    /\ ret.doc[1].Chapters.elems = <<>>
    /\ ~ret.doc[1].Chapters.isNil

(***************************************************************************)
(* C19.  The turn for a \toc1, \toc2 or \toc3 marker appends one entry     *)
(* with the level 1, 2 or 3 and the marker's content to the table of       *)
(* contents and changes nothing else; no step removes or changes an entry  *)
(* already there, one of the same level included; so after a successful    *)
(* parse the table of contents lists exactly the TOC markers of the input, *)
(* in the order of the lines.                                              *)
(***************************************************************************)
LevelOfToc(tag) ==
    CASE tag = <<"t", "o", "c", "1">> -> 1
      [] tag = <<"t", "o", "c", "2">> -> 2
      [] tag = <<"t", "o", "c", "3">> -> 3

TocEntry(text) ==
    [Level |-> LevelOfToc(LineMarker(text).Tag), Text |-> LineMarker(text).Content]

\* the entries of the \toc marker lines of `lines`, in the order of the lines
RECURSIVE TocMarkers(_)
TocMarkers(lines) ==
    IF lines = <<>> THEN <<>>
    ELSE (IF HasTag(lines[1], TocTags) THEN <<TocEntry(lines[1])>> ELSE <<>>)
         \o TocMarkers(Tail(lines))

IsPrefix(s, t) == Len(s) <= Len(t) /\ SubSeq(t, 1, Len(s)) = s

C19_TocAccumulates ==
    /\ [](Succeeded => ret.doc[1].TableOfContents.elems = TocMarkers(input))
    /\ [][/\ IsPrefix(doc.TableOfContents.elems, doc'.TableOfContents.elems)
          /\ TurnFor(TocTags) =>
                 /\ pc' = "scan"
                 /\ doc' = [doc EXCEPT !.TableOfContents =
                               [isNil |-> FALSE,
                                elems |-> Append(@.elems, TocEntry(Last(input')))]]
                 /\ currentChapter' = currentChapter
                 /\ currentSection' = currentSection]_vars

\* \toc1 T, \toc3 W, \toc1 V: three entries, the two of level 1 both there
C19_Witness ==
    /\ input = <<LineToc1, LineToc3, LineToc1b>>
    /\ Succeeded
    /\ ret.doc[1].TableOfContents.elems =
           <<[Level |-> 1, Text |-> <<"T">>], [Level |-> 3, Text |-> <<"W">>],
             [Level |-> 1, Text |-> <<"V">>]>>

(***************************************************************************)
(* C20.  The turn for an \id, \h or \mt1 marker sets the document's ID,    *)
(* Header or MainTitle to the marker's content and changes nothing else:   *)
(* not the other two fields, the table of contents, the chapters or the    *)
(* cursors.  So in a returned document each of the three fields is the     *)
(* content of the last line with its marker (empty if there is none).      *)
(***************************************************************************)
\* the content of the last line of `lines` with the tag, empty if none has it
RECURSIVE LastContent(_, _)
LastContent(lines, tag) ==
    IF lines = <<>> THEN <<>>
    ELSE IF HasTag(Last(lines), {tag}) THEN LineMarker(Last(lines)).Content
    ELSE LastContent(SubSeq(lines, 1, Len(lines) - 1), tag)

TurnContent == LineMarker(Last(input')).Content

C20_ScalarFieldsSetOutright ==
    /\ [](Succeeded =>
             /\ ret.doc[1].ID = LastContent(input, <<"i", "d">>)
             /\ ret.doc[1].Header = LastContent(input, <<"h">>)
             /\ ret.doc[1].MainTitle = LastContent(input, <<"m", "t", "1">>))
    /\ [][/\ TurnFor({<<"i", "d">>}) => doc' = [doc EXCEPT !.ID = TurnContent]
          /\ TurnFor({<<"h">>}) => doc' = [doc EXCEPT !.Header = TurnContent]
          /\ TurnFor({<<"m", "t", "1">>}) => doc' = [doc EXCEPT !.MainTitle = TurnContent]
          /\ TurnFor(MetaTags) =>
                 /\ pc' = "scan"
                 /\ currentChapter' = currentChapter
                 /\ currentSection' = currentSection]_vars

\* \id X, \h H, \id Y: the ID is that of the second \id, the header stays
C20_Witness ==
    /\ input = <<LineId, LineH, LineId2>>
    /\ Succeeded
    /\ ret.doc[1].ID = <<"Y">>
    /\ ret.doc[1].Header = <<"H">>
    /\ ret.doc[1].MainTitle = <<>>

(***************************************************************************)
(* C21.  For a marker line \tag content (a backslash, a tag of [a-z0-9],   *)
(* and then nothing or white space and a content) parseMarker returns      *)
(* exactly the tag and the content trimmed of white space; and for every   *)
(* line parseMarker accepts, the line made of a backslash, the returned    *)
(* tag, one space and the returned content is accepted again with the      *)
(* same tag and the same content.                                          *)
(***************************************************************************)
TagRun(line) == SubSeq(Tail(line), 1, PrefixLen(Tail(line), TagChars))
RestAfterTagRun(line) == DropPrefix(Tail(line), PrefixLen(Tail(line), TagChars))

\* \tag, then the end of the line or white space
TagSpaceContent(line) ==
    /\ line # <<>> /\ line[1] = BackSlash
    /\ TagRun(line) # <<>>
    /\ RestAfterTagRun(line) = <<>> \/ RestAfterTagRun(line)[1] \in WhiteSpace

ReJoin(m) == <<BackSlash>> \o m.Tag \o <<" ">> \o m.Content

C21_TokenizeReJoin ==
    MarkerReturned =>
        LET line == fnArg.text
            m    == fnOut[1]
        IN  /\ TagSpaceContent(line) =>
                   /\ m.ok
                   /\ m.Tag = TagRun(line)
                   /\ m.Content = TrimSpace(RestAfterTagRun(line))
            /\ m.ok =>
                   LET again == parseMarker(ReJoin(m), 1)
                   IN  /\ again.ok
                       /\ again.Tag = m.Tag
                       /\ again.Content = m.Content

\* \i  -X: the content comes back without the two spaces, and again from \i -X
C21_Witness ==
    /\ MarkerReturned
    /\ fnArg.text = <<BackSlash, "i", " ", " ", "-">>
    /\ fnOut[1].ok
    /\ fnOut[1].Tag = <<"i">>
    /\ fnOut[1].Content = <<"-">>
    /\ ReJoin(fnOut[1]) = <<BackSlash, "i", " ", "-">>

(***************************************************************************)
(* C22.  FormatJSON returns for exactly one document the JSON object of    *)
(* that document, bare; for no document the text []; and for two or more   *)
(* documents a JSON array whose elements are the objects of the documents, *)
(* in the order of the input (each as FormatJSON writes it alone, one      *)
(* indent deeper).                                                         *)
(***************************************************************************)
JSONReturned == fnPc = "return" /\ fnArg.fn = "FormatJSON"

\* t with two spaces put after every line feed
RECURSIVE AfterLineFeeds(_)
AfterLineFeeds(t) ==
    IF t = <<>> THEN <<>>
    ELSE IF Len(t) = 1 THEN (IF t[1] = "\n" THEN <<"\n", " ", " ">> ELSE t)
    ELSE AfterLineFeeds(SubSeq(t, 1, Len(t) \div 2))
         \o AfterLineFeeds(SubSeq(t, Len(t) \div 2 + 1, Len(t)))

\* the object of each document, one indent deeper, separated by commas
RECURSIVE ArrayElements(_)
ArrayElements(documents) ==
    LET element == <<" ", " ">> \o AfterLineFeeds(FormatJSON(<<documents[1]>>))
    IN  IF Len(documents) = 1 THEN element
        ELSE element \o <<",", "\n">> \o ArrayElements(Tail(documents))

C22_ObjectOrArray ==
    JSONReturned =>
        LET documents == fnArg.docs
            out       == fnOut[1]
        IN  /\ Len(documents) = 0 => out = <<"[", "]">>
            /\ Len(documents) = 1 =>
                   /\ out[1] = "{" /\ out[Len(out)] = "}"
                   /\ out = JoinLines(MarshalDocument(documents[1]))
            /\ Len(documents) >= 2 =>
                   out = <<"[", "\n">> \o ArrayElements(documents) \o <<"\n", "]">>

\* two documents, written as an array
C22_Witness ==
    /\ JSONReturned
    /\ fnArg.docs = <<DocFull, DocSmall>>
    /\ fnOut[1][1] = "["
    /\ fnOut[1][Len(fnOut[1])] = "]"

(***************************************************************************)
(* C23.  FormatTSV writes the header row of 8 columns and then exactly one *)
(* row per verse of every document, in the order of documents, chapters,   *)
(* sections and verses; every row, for any documents Parse can return, has *)
(* exactly 8 fields separated by tabs, the free text in them being         *)
(* sanitized.                                                              *)
(***************************************************************************)
TSVReturned == fnPc = "return" /\ fnArg.fn = "FormatTSV"

\* strings.Split(t, sep) for a one-character separator
RECURSIVE SplitOn(_, _)
SplitOn(t, sep) ==
    LET i == Index(t, <<sep>>)
    IN  IF i = 0 THEN <<t>>
        ELSE <<SubSeq(t, 1, i - 1)>> \o SplitOn(SubSeq(t, i + 1, Len(t)), sep)

RECURSIVE VersesOfDocuments(_)
VersesOfDocuments(documents) ==
    IF documents = <<>> THEN <<>>
    ELSE AllVerses(documents[1]) \o VersesOfDocuments(Tail(documents))

C23_EightFieldsPerRow ==
    TSVReturned =>
        LET rows   == SplitOn(fnOut[1], "\n")
            verses == VersesOfDocuments(fnArg.docs)
        IN  /\ rows[1] \o <<"\n">> = TSVHeader
            /\ Len(rows) = 1 + Len(verses) + 1
            /\ rows[Len(rows)] = <<>>
            /\ \A i \in 1..(Len(rows) - 1) : Len(SplitOn(rows[i], "\t")) = 8
            /\ \A i \in 1..Len(verses) :
                   /\ Len(SplitOn(rows[i + 1], "\t")) >= 6
                   /\ SplitOn(rows[i + 1], "\t")[3] = Itoa(verses[i].Number)
                   /\ SplitOn(rows[i + 1], "\t")[6] = cleanTSVField(verses[i].Text)

(***************************************************************************)
(* C24, as stated.  cleanTSVField returns a text with no tab, line feed or *)
(* carriage return, no two spaces in a row and no space at either end; a   *)
(* text that already is like that comes back unchanged; so cleaning twice  *)
(* is cleaning once.                                                       *)
(***************************************************************************)
CleanReturned == fnPc = "return" /\ fnArg.fn = "cleanTSVField"

NoBreaks(t) == \A i \in 1..Len(t) : t[i] \notin {"\t", "\n", "\r"}
NoSpaceRun(t) == \A i \in 1..(Len(t) - 1) : ~(t[i] = " " /\ t[i + 1] = " ")
NoSpaceAtEnds(t) == t = <<>> \/ (t[1] # " " /\ t[Len(t)] # " ")
NoWhiteSpaceAtEnds(t) == t = <<>> \/ (t[1] \notin WhiteSpace /\ t[Len(t)] \notin WhiteSpace)

C24_CleanUpToSpaces ==
    CleanReturned =>
        LET text == fnArg.text
            out  == fnOut[1]
        IN  /\ NoBreaks(out) /\ NoSpaceRun(out) /\ NoSpaceAtEnds(out)
            /\ (NoBreaks(text) /\ NoSpaceRun(text) /\ NoSpaceAtEnds(text)) => out = text
            /\ cleanTSVField(out) = out

(***************************************************************************)
(* C24, as amended.  cleanTSVField returns a text with no tab, line feed   *)
(* or carriage return, no two spaces in a row and no white space of any    *)
(* kind (a form feed, say) at either end; a text that already is like that *)
(* comes back unchanged; so cleaning twice is cleaning once.               *)
(***************************************************************************)
C24_CleanUpToWhiteSpace ==
    CleanReturned =>
        LET text == fnArg.text
            out  == fnOut[1]
        IN  /\ NoBreaks(out) /\ NoSpaceRun(out) /\ NoWhiteSpaceAtEnds(out)
            /\ (NoBreaks(text) /\ NoSpaceRun(text) /\ NoWhiteSpaceAtEnds(text)) => out = text
            /\ cleanTSVField(out) = out

\* form feed, a, tab, line feed, a: cleaned to "a a"
C24_Witness ==
    /\ CleanReturned
    /\ fnArg.text = <<"\f", "a", "\t", "\n", "a">>
    /\ fnOut[1] = <<"a", " ", "a">>

(***************************************************************************)
(* C25.  A chapter is appended to the document, and a section to its       *)
(* chapter, only when it is finalized (by the next \c, the next heading or *)
(* the end of the input), as it is then, and nothing appended is changed   *)
(* later.  A \c turn clears the section cursor, and a \v or \r turn        *)
(* changes the section cursor only.  So each verse of a returned document  *)
(* lies in the chapter of the nearest \c line before it and in the section *)
(* of the nearest heading before it in that chapter (or in the implicit    *)
(* section its chapter's first verse without a heading opened).            *)
(***************************************************************************)
\* the chapter with its open section added
Closed(chapter, section) ==
    IF section # Nil THEN [chapter[1] EXCEPT !.Sections = Append(@, section[1])]
    ELSE chapter[1]

\* where the verse lines lie: for each \v line after a \c line, the ordinal
\* and number of its chapter, the ordinal and heading of its section, and the
\* verse number.  k and number are those of the chapter, j the sections of the
\* chapter so far, heading the open section's (Nil if none is open)
RECURSIVE VersePlaces(_, _, _, _, _)
VersePlaces(lines, k, number, j, heading) ==
    IF lines = <<>> THEN <<>>
    ELSE LET m    == LineMarker(lines[1])
             rest == Tail(lines)
         IN  CASE HasTag(lines[1], {<<"c">>}) ->
                      VersePlaces(rest, k + 1, Atoi(m.Content).num, 0, Nil)
               [] HasTag(lines[1], SectionTags) ->
                      VersePlaces(rest, k, number, j + 1,
                                  Some([Level |-> DigitVal(m.Tag[2]), Title |-> m.Content]))
               [] HasTag(lines[1], {<<"v">>}) ->
                      LET h  == IF heading = Nil THEN Some([Level |-> 1, Title |-> <<>>])
                                ELSE heading
                          jj == IF heading = Nil THEN j + 1 ELSE j
                      IN  (IF k = 0 THEN <<>>
                           ELSE <<[chapter |-> k, number |-> number, section |-> jj,
                                   heading |-> h[1],
                                   verse |-> Atoi(SplitN2(m.Content, <<" ">>)[1]).num]>>)
                          \o VersePlaces(rest, k, number, jj, h)
               [] OTHER -> VersePlaces(rest, k, number, j, heading)

\* the same of the verses of a document
RECURSIVE PlacesInSection(_, _, _, _, _)
PlacesInSection(verses, k, number, j, section) ==
    IF verses = <<>> THEN <<>>
    ELSE <<[chapter |-> k, number |-> number, section |-> j,
            heading |-> [Level |-> section.Level, Title |-> section.Title],
            verse |-> verses[1].Number]>>
         \o PlacesInSection(Tail(verses), k, number, j, section)

RECURSIVE PlacesInChapter(_, _, _, _)
PlacesInChapter(sections, k, number, j) ==
    IF sections = <<>> THEN <<>>
    ELSE PlacesInSection(sections[1].Verses, k, number, j, sections[1])
         \o PlacesInChapter(Tail(sections), k, number, j + 1)

RECURSIVE PlacesInDocument(_, _)
PlacesInDocument(chapters, k) ==
    IF chapters = <<>> THEN <<>>
    ELSE PlacesInChapter(chapters[1].Sections, k, chapters[1].Number, 1)
         \o PlacesInDocument(Tail(chapters), k + 1)

C25_AppendedWhenFinalized ==
    /\ [](Succeeded =>
             PlacesInDocument(ret.doc[1].Chapters.elems, 1)
                 = VersePlaces(input, 0, 0, 0, Nil))
    /\ [][/\ IsPrefix(doc.Chapters.elems, doc'.Chapters.elems)
          /\ doc'.Chapters.elems # doc.Chapters.elems =>
                 /\ TurnFor({<<"c">>}) \/ pc' = "done"
                 /\ currentChapter # Nil
                 /\ doc'.Chapters.elems =
                        Append(doc.Chapters.elems, Closed(currentChapter, currentSection))
          /\ (TurnFor({<<"c">>}) /\ pc' = "scan") =>
                 /\ currentSection' = Nil
                 /\ currentChapter' # Nil
                 /\ currentChapter'[1].Sections = <<>>
          /\ (TurnFor(SectionTags) /\ currentChapter # Nil) =>
                 /\ doc' = doc
                 /\ currentChapter'[1] = Closed(currentChapter, currentSection)
          /\ TurnFor({<<"v">>, <<"r">>}) =>
                 /\ doc' = doc
                 /\ currentChapter' = currentChapter]_vars

\* \c 1, \s1 A, \c 2 have been read: chapter 1 is in the document with its
\* section A, and no section is open in chapter 2
C25_Witness ==
    /\ pc = "scan"
    /\ input = <<LineC1, LineS1, LineC2>>
    /\ currentSection = Nil
    /\ currentChapter # Nil
    /\ currentChapter[1].Number = 2
    /\ Len(doc.Chapters.elems) = 1
    /\ Len(doc.Chapters.elems[1].Sections) = 1
    /\ doc.Chapters.elems[1].Sections[1].Title = <<"A">>

(***************************************************************************)
(* C26.  The turn for an \s1, \s2 or \s3 marker opens a section of level   *)
(* 1, 2 or 3 by its tag, with the marker's content as title, no reference  *)
(* and no verses.  In a returned document the sections of each chapter are *)
(* those opened within it, in the order of the lines, each with exactly    *)
(* the verses that followed before the next heading, the next \c or the    *)
(* end of the input; and every section has a level in {1, 2, 3}.           *)
(***************************************************************************)
LevelOfHeading(tag) ==
    CASE tag = <<"s", "1">> -> 1
      [] tag = <<"s", "2">> -> 2
      [] tag = <<"s", "3">> -> 3

\* the sections read off the lines: for each one opened after a \c line, the
\* ordinal k of its chapter, its level and title, and the numbers of its verses
RECURSIVE SectionsRead(_, _, _)
SectionsRead(lines, k, open) ==
    LET closed == IF open # Nil /\ k > 0 THEN open ELSE <<>>
    IN  IF lines = <<>> THEN closed
        ELSE LET m    == LineMarker(lines[1])
                 rest == Tail(lines)
             IN  CASE HasTag(lines[1], {<<"c">>}) ->
                          closed \o SectionsRead(rest, k + 1, Nil)
                   [] HasTag(lines[1], SectionTags) ->
                          closed \o SectionsRead(rest, k,
                              Some([chapter |-> k, Level |-> LevelOfHeading(m.Tag),
                                    Title |-> m.Content, Numbers |-> <<>>]))
                   [] HasTag(lines[1], {<<"v">>}) ->
                          LET number == Atoi(SplitN2(m.Content, <<" ">>)[1]).num
                              sec    == IF open # Nil THEN open[1]
                                        ELSE [chapter |-> k, Level |-> 1, Title |-> <<>>,
                                              Numbers |-> <<>>]
                          IN  SectionsRead(rest, k,
                                  Some([sec EXCEPT !.Numbers = Append(@, number)]))
                   [] OTHER -> SectionsRead(rest, k, open)

RECURSIVE NumbersOf(_)
NumbersOf(verses) ==
    IF verses = <<>> THEN <<>> ELSE <<verses[1].Number>> \o NumbersOf(Tail(verses))

RECURSIVE SectionsInChapter(_, _)
SectionsInChapter(sections, k) ==
    IF sections = <<>> THEN <<>>
    ELSE <<[chapter |-> k, Level |-> sections[1].Level, Title |-> sections[1].Title,
            Numbers |-> NumbersOf(sections[1].Verses)]>>
         \o SectionsInChapter(Tail(sections), k)

RECURSIVE SectionsInDocument(_, _)
SectionsInDocument(chapters, k) ==
    IF chapters = <<>> THEN <<>>
    ELSE SectionsInChapter(chapters[1].Sections, k)
         \o SectionsInDocument(Tail(chapters), k + 1)

C26_SectionsByHeading ==
    /\ [](Succeeded =>
             /\ SectionsInDocument(ret.doc[1].Chapters.elems, 1) = SectionsRead(input, 0, Nil)
             /\ \A i \in 1..Len(SectionsOf(ret.doc[1].Chapters.elems)) :
                    SectionsOf(ret.doc[1].Chapters.elems)[i].Level \in {1, 2, 3})
    /\ [][TurnFor(SectionTags) =>
              /\ pc' = "scan"
              /\ currentSection' =
                     Some([Level     |-> LevelOfHeading(LineMarker(Last(input')).Tag),
                           Title     |-> LineMarker(Last(input')).Content,
                           Reference |-> <<>>,
                           Verses    |-> <<>>])]_vars

\* \c 1, \s3 C, \s2 B: chapter 1 has the section C of level 3 and the section B
\* of level 2, both without verses
C26_Witness ==
    /\ Succeeded
    /\ input = <<LineC1, LineS3, LineS2>>
    /\ SectionsInDocument(ret.doc[1].Chapters.elems, 1) =
           <<[chapter |-> 1, Level |-> 3, Title |-> <<"C">>, Numbers |-> <<>>],
             [chapter |-> 1, Level |-> 2, Title |-> <<"B">>, Numbers |-> <<>>]>>

(***************************************************************************)
(* C27.  A verse whose body has footnote markup that is not a whole block  *)
(* (a \f that is never closed, a block without \fr, a block without \ft)   *)
(* is never an error, in strict or in lenient mode, with footnotes         *)
(* included or not: the turn adds the verse with no footnote and with the  *)
(* markup still in its text.                                               *)
(***************************************************************************)
\* the body of a verse line "\v N body" with a one-digit number
BodyOf(line) == DropPrefix(line, 5)

C27_PartialMarkupKept ==
    /\ [](\A i \in 1..Len(input) :
             input[i] \in PartialFootnoteLines =>
                 ~(Failed /\ ret.err[1].line = Some(i)))
    /\ [][(TurnFor({<<"v">>}) /\ Last(input') \in PartialFootnoteLines) =>
              /\ pc' = "scan"
              /\ currentSection' # Nil
              /\ Len(currentSection'[1].Verses) =
                     (IF currentSection = Nil THEN 0 ELSE Len(currentSection[1].Verses)) + 1
              /\ Last(currentSection'[1].Verses) =
                     [Number    |-> DigitVal(Last(input')[4]),
                      Text      |-> BodyOf(Last(input')),
                      Footnotes |-> <<>>]]_vars

\* strict mode, footnotes included: \c 1, the verse with the open footnote and
\* the verse with a whole one are returned, the first one with its markup
C27_Witness ==
    /\ options.StrictMode /\ options.IncludeFootnotes
    /\ input = <<LineC1, LineVOpen, LineVF>>
    /\ Succeeded
    /\ AllVerses(ret.doc[1])[1].Footnotes = <<>>
    /\ AllVerses(ret.doc[1])[1].Text = BodyOf(LineVOpen)
    /\ Len(AllVerses(ret.doc[1])[2].Footnotes) = 1

(***************************************************************************)
(* C28.  Strict mode only adds failures: whenever Parse succeeds in strict *)
(* mode, Parse of the same input in lenient mode, with the same settings   *)
(* of IncludeFootnotes and IncludeReferences, succeeds too and returns the *)
(* same document.                                                          *)
(***************************************************************************)
Lenient(opts) == [opts EXCEPT !.StrictMode = FALSE]

C28_StrictOnlyAddsFailures ==
    (Succeeded /\ options.StrictMode) =>
        LET lenient == Parse(input, Lenient(options))
        IN  /\ lenient.err = Nil
            /\ lenient.doc = ret.doc

\* strict mode has returned a document with a section that has a reference
C28_Witness ==
    /\ options.StrictMode /\ options.IncludeReferences
    /\ input = <<LineC1, LineS1, LineR>>
    /\ Succeeded
    /\ SectionsOf(ret.doc[1].Chapters.elems)[1].Reference = <<"R">>

(***************************************************************************)
(* C29, as stated.  A section opened by a verse always has a verse, and    *)
(* the verses of an open section are never taken away; so every section    *)
(* without verses of a returned document was opened by a heading whose     *)
(* very next line is another heading or a \c marker, or which is the last  *)
(* line of the input.                                                      *)
(***************************************************************************)
\* the headings read after a \c line: the ordinal k of the chapter, the
\* ordinal j of the section in its chapter, and the number i of the line
RECURSIVE HeadingPlaces(_, _, _, _, _)
HeadingPlaces(lines, i, k, j, open) ==
    IF i > Len(lines) THEN {}
    ELSE CASE HasTag(lines[i], {<<"c">>}) -> HeadingPlaces(lines, i + 1, k + 1, 0, FALSE)
           [] HasTag(lines[i], SectionTags) ->
                  (IF k = 0 THEN {} ELSE {[chapter |-> k, section |-> j + 1, line |-> i]})
                  \cup HeadingPlaces(lines, i + 1, k, j + 1, TRUE)
           [] HasTag(lines[i], {<<"v">>}) ->
                  HeadingPlaces(lines, i + 1, k, IF open THEN j ELSE j + 1, TRUE)
           [] OTHER -> HeadingPlaces(lines, i + 1, k, j, open)

\* the sections without verses of a document, by chapter and section ordinal
EmptySections(d) ==
    {[chapter |-> k, section |-> j] :
        <<k, j>> \in {<<k, j>> \in (1..Len(d.Chapters.elems)) \X (1..MaxLines) :
                         /\ j <= Len(d.Chapters.elems[k].Sections)
                         /\ d.Chapters.elems[k].Sections[j].Verses = <<>>}}

\* the next line is a heading or a \c marker, or there is none
DirectlyClosed(lines, i) ==
    i = Len(lines) \/ HasTag(lines[i + 1], SectionTags \cup {<<"c">>})

\* no verse line comes between the line and the next heading, \c or the end
ClosedBeforeVerse(lines, i) ==
    \A n \in (i + 1)..Len(lines) :
        HasTag(lines[n], {<<"v">>}) =>
            \E h \in (i + 1)..(n - 1) : HasTag(lines[h], SectionTags \cup {<<"c">>})

ImplicitSectionHasVerse ==
    /\ (TurnFor({<<"v">>}) /\ pc' = "scan") =>
           /\ currentSection' # Nil
           /\ Len(currentSection'[1].Verses) >= 1
    /\ (currentSection # Nil /\ ~TurnFor(SectionTags) /\ ~TurnFor({<<"c">>})) =>
           /\ currentSection' # Nil
           /\ IsPrefix(currentSection[1].Verses, currentSection'[1].Verses)

C29_EmptyOnlyIfDirectlyClosed ==
    /\ [](Succeeded =>
             EmptySections(ret.doc[1]) \subseteq
                 {[chapter |-> h.chapter, section |-> h.section] :
                      h \in {g \in HeadingPlaces(input, 1, 0, 0, FALSE) :
                                DirectlyClosed(input, g.line)}})
    /\ [][ImplicitSectionHasVerse]_vars

(***************************************************************************)
(* C29, as amended.  A section opened by a verse always has a verse, and   *)
(* the verses of an open section are never taken away; so the sections     *)
(* without verses of a returned document are exactly those opened, within  *)
(* a chapter, by a heading after which no verse line comes before the next *)
(* heading, the next \c marker or the end of the input (other lines, such  *)
(* as \r, blank or skipped lines, may come in between).                    *)
(***************************************************************************)
C29_EmptyOnlyIfNoVerseFollowed ==
    /\ [](Succeeded =>
             EmptySections(ret.doc[1]) =
                 {[chapter |-> h.chapter, section |-> h.section] :
                      h \in {g \in HeadingPlaces(input, 1, 0, 0, FALSE) :
                                ClosedBeforeVerse(input, g.line)}})
    /\ [][ImplicitSectionHasVerse]_vars

\* \c 1, \s1 A, \r R: the section A is returned without verses, and the line
\* after its heading is neither a heading nor a \c marker
C29_Witness ==
    /\ Succeeded
    /\ input = <<LineC1, LineS1, LineR>>
    /\ EmptySections(ret.doc[1]) = {[chapter |-> 1, section |-> 1]}
    /\ ~DirectlyClosed(input, 2)

(***************************************************************************)
(* C30.  With footnotes included, the text of every verse of a returned    *)
(* document holds no complete footnote block: extractFootnotes finds no    *)
(* footnote in it and removeFootnoteMarkers returns it unchanged, also     *)
(* when the removal of a block joined the text before and after it.        *)
(***************************************************************************)
FullyCleaned(text) ==
    /\ footnoteRegexFindAll(text, 1) = <<>>
    /\ extractFootnotes(text) = <<>>
    /\ removeFootnoteMarkers(text) = text

C30_TextFullyCleaned ==
    (Succeeded /\ options.IncludeFootnotes) =>
        \A i \in 1..Len(AllVerses(ret.doc[1])) : FullyCleaned(AllVerses(ret.doc[1])[i].Text)

====
